---- MODULE Spec2Model ----
(***************************************************************************)
(* Model of the warehouse synchronisation cron job of my-learning-analytics *)
(* (src/dashboard/cron_udp.py): DashboardCronJob.do() and the stages it    *)
(* sequences, run repeatedly against an operational store, a data          *)
(* warehouse and an event source (LRS).                                    *)
(*                                                                         *)
(* Conventions.  SQL NULL / Python None / pandas NaN are written NULL (0)  *)
(* for integer-valued columns and NoneDate for datetime fields.  Tables    *)
(* that admit duplicate rows are sequences in insertion order.             *)
(***************************************************************************)
EXTENDS Integers, Sequences, FiniteSets, TLC

\* ---------------------------------------------------------------- bounds
\* Number of cron runs explored.
MaxRuns == 2

\* Number of Course rows administrators add or delete while the job is observed.
MaxEdits == 1

\* Longest list and largest batch size split_list is applied to on its own.
MaxLen == 4
MaxSize == 3

\* The course ids the operational store and the warehouse may know.
CourseIds == {1, 2}
NULL == 0

\* ------------------------------------------------------------ generic helpers
RECURSIVE SetToSortedSeq(_)
\* The ids of a set in ascending order (primary-key order of a queryset).
SetToSortedSeq(S) ==
    IF S = {} THEN <<>>
    ELSE LET m == CHOOSE x \in S : \A y \in S : x <= y
         IN  <<m>> \o SetToSortedSeq(S \ {m})

Range(s) == {s[i] : i \in 1..Len(s)}

RECURSIVE Concat(_)
\* Concatenation of a sequence of sequences.
Concat(ss) == IF ss = <<>> THEN <<>> ELSE Head(ss) \o Concat(Tail(ss))

\* pandas DataFrame.drop_duplicates(keep='first') on whole rows: a row survives iff
\* no earlier row equals it; survivors keep their order.
drop_duplicates(df) ==
    LET keep(i) == \A j \in 1..(i-1) : df[j] # df[i]
        idx == SetToSortedSeq({i \in 1..Len(df) : keep(i)})
    IN  [k \in 1..Len(idx) |-> df[idx[k]]]

\* (a split that yields the full pieces only)
split_list_full(a_list, size) ==
    [b \in 1..(Len(a_list) \div size) |-> SubSeq(a_list, (b-1)*size + 1, b*size)]

\* Split a list into pieces of at most `size` elements (split_list).
split_list(a_list, size) ==
    LET n == (Len(a_list) + size - 1) \div size
    IN  [b \in 1..n |->
            SubSeq(a_list, (b-1)*size + 1,
                   IF b*size < Len(a_list) THEN b*size ELSE Len(a_list))]

\* ---------------------------------------------------------------- datetimes
\* A datetime is [t, tz]: t the wall-clock reading, tz its tzinfo ("naive" = none).
NoneDate == [t |-> 0, tz |-> "none"]
\* datetime.replace(tzinfo=pytz.UTC): relabels the zone, keeps the reading.
replace_tzinfo_utc(d) == [t |-> d.t, tz |-> "UTC"]

\* ------------------------------------------------------------------- state
VARIABLES
    \* operational store (MySQL)
    course,            \* Course rows: [id -> [name, term, date_start, date_end, data_last_updated]]
    terms,             \* academic_terms rows (a set of [id, name])
    tables,            \* the fully replaced tables and unizin_metadata: [table -> Seq(row)]
    resource,          \* resource rows (a set of [resource_id, resource_type, name])
    resource_access,   \* resource_access rows, in insertion order
    \* sources and configuration
    wh_courses,        \* warehouse course query result per course id (a sequence of rows)
    wh_terms,          \* warehouse term query result
    wh_tables,         \* warehouse query result per table and course id
    wh_files,          \* warehouse file_dim rows
    lrs,               \* event source rows
    settings,          \* django settings read by the job
    \* the run (locals of do() and of the stage in progress)
    pc,                \* position of do(): the next stage, or idle / done / raised
    now,               \* the clock: datetime.now() read at the start of a run
    runs,              \* number of runs started
    edits,             \* number of Course rows added or deleted by administrators
    run_start,
    locked,            \* self.valid_locked_course_ids
    course_data,       \* course_verification.course_data
    invalid,           \* course_verification.invalid_course_ids
    exception_in_run,  \* "unbound" | "false" | "true"
    status,            \* the run summary, one entry per appended line
    ra,                \* locals of update_resource_access
    \* history, for stating properties
    ops,               \* writes the run issued to the operational store, in order
    stages,            \* stages the run entered, in order
    start,             \* the Course rows and warehouse tables as the run found them,
                       \* whether the run follows failed runs (retry), and
                       \* resource_access as the first of those found it (origin)
    prev               \* what the previous run left, if it ran every table sync

store_vars == <<course, terms, tables, resource, resource_access>>
source_vars == <<wh_courses, wh_terms, wh_tables, wh_files, lrs, settings>>
run_vars == <<pc, now, runs, edits, run_start, locked, course_data, invalid,
              exception_in_run, status, ra>>
hist_vars == <<ops, stages, start, prev>>
vars == <<store_vars, source_vars, run_vars, hist_vars>>

FullTables == {"user", "assignment_groups", "assignment", "submission",
               "assignment_weight_consideration"}
AllTables == FullTables \cup {"unizin_metadata"}

\* A line of the run summary: k its kind, n / ids / fields what it reports.
Entry(k, n, ids, fields) == [k |-> k, n |-> n, ids |-> ids, fields |-> fields]

\* ----------------------------------------------------- CourseIdValidator
\* Course.objects.get_supported_courses(): the ids of the Course rows.
get_supported_courses == SetToSortedSeq(DOMAIN course)

\* (a validator that reports no id)
verify_no_invalid_ids ==
    SelectSeq(get_supported_courses, LAMBDA id : FALSE)

\* verify_course_ids(): one warehouse query per supported id; an id whose query
\* returns no row is invalid, the other results are concatenated.
verify_invalid_ids ==
    SelectSeq(get_supported_courses, LAMBDA id : wh_courses[id] = <<>>)

\* (a loop that keeps only the frame of the last course)
verify_last_course_data ==
    LET sup == get_supported_courses
    IN  IF sup = <<>> THEN <<>> ELSE wh_courses[sup[Len(sup)]]

verify_course_data ==
    LET sup == get_supported_courses
    IN  Concat([i \in 1..Len(sup) |-> wh_courses[sup[i]]])

\* -------------------------------------------------------------- TermSyncer
existing_terms_ids == {t.id : t \in terms}

\* (the frame without the filter on new ids)
all_term_df == wh_terms

\* new_term_df: the warehouse rows whose id is not yet in academic_terms.
new_term_df == SelectSeq(wh_terms, LAMBDA r : r.id \notin existing_terms_ids)

\* academic_terms.id is the primary key: an append holding one id twice is refused.
term_insert_conflict ==
    \E i, j \in 1..Len(new_term_df) : i # j /\ new_term_df[i].id = new_term_df[j].id

\* to_sql(name='academic_terms', if_exists=...): 'append' adds the rows,
\* 'replace' would leave only them.
replace_terms(df) == Range(df)

append_terms(df) == terms \cup Range(df)

\* -------------------------------------------------------- CourseFieldMerger
\* (an update that takes the warehouse value whenever there is one)
soft_update_overwrite(current, warehouse_field_value) ==
    IF warehouse_field_value # NoneDate
    THEN [value |-> replace_tzinfo_utc(warehouse_field_value), updated |-> TRUE]
    ELSE [value |-> current, updated |-> FALSE]

\* (an update that sets the field and returns [] all the same)
soft_update_unreported(current, warehouse_field_value) ==
    IF current = NoneDate /\ warehouse_field_value # NoneDate
    THEN [value |-> replace_tzinfo_utc(warehouse_field_value), updated |-> FALSE]
    ELSE [value |-> current, updated |-> FALSE]

\* soft_update_datetime_field: the new field value and whether it was updated.
soft_update_datetime_field(current, warehouse_field_value) ==
    IF current # NoneDate
    THEN [value |-> current, updated |-> FALSE]
    ELSE IF warehouse_field_value # NoneDate
         THEN [value |-> replace_tzinfo_utc(warehouse_field_value), updated |-> TRUE]
         ELSE [value |-> current, updated |-> FALSE]

\* The first course_data row of a course id (.loc[...].iloc[0]).
warehouse_course_dict(id) ==
    LET i == CHOOSE i \in 1..Len(course_data) :
                 /\ course_data[i].id = id
                 /\ \A j \in 1..(i-1) : course_data[j].id # id
    IN  course_data[i]

\* (the loop body without lines 710-714)
merge_course_keep_name(id, row) ==
    LET w == warehouse_course_dict(id)
        term_changed == row.term = NULL \/ row.term # w.enrollment_term_id
        ds == soft_update_datetime_field(row.date_start, w.start_at)
        de == soft_update_datetime_field(row.date_end, w.conclude_at)
    IN  [raised |-> term_changed /\ w.enrollment_term_id \notin existing_terms_ids,
         row |-> [row EXCEPT !.term = w.enrollment_term_id,
                             !.date_start = ds.value, !.date_end = de.value],
         fields |-> (IF term_changed THEN <<"term">> ELSE <<>>)
                    \o (IF ds.updated THEN <<"date_start">> ELSE <<>>)
                    \o (IF de.updated THEN <<"date_end">> ELSE <<>>)]

\* (the loop body assigning and reporting the name without comparing it)
merge_course_always_name(id, row) ==
    LET w == warehouse_course_dict(id)
        term_changed == row.term = NULL \/ row.term # w.enrollment_term_id
        ds == soft_update_datetime_field(row.date_start, w.start_at)
        de == soft_update_datetime_field(row.date_end, w.conclude_at)
    IN  [raised |-> term_changed /\ w.enrollment_term_id \notin existing_terms_ids,
         row |-> [row EXCEPT !.name = w.name, !.term = w.enrollment_term_id,
                             !.date_start = ds.value, !.date_end = de.value],
         fields |-> <<"name">>
                    \o (IF term_changed THEN <<"term">> ELSE <<>>)
                    \o (IF ds.updated THEN <<"date_start">> ELSE <<>>)
                    \o (IF de.updated THEN <<"date_end">> ELSE <<>>)]

\* (the loop body assigning the term id without AcademicTerms.objects.get)
merge_course_unchecked(id, row) ==
    LET w == warehouse_course_dict(id)
        name_changed == row.name # w.name
        term_changed == row.term = NULL \/ row.term # w.enrollment_term_id
        ds == soft_update_datetime_field(row.date_start, w.start_at)
        de == soft_update_datetime_field(row.date_end, w.conclude_at)
    IN  [raised |-> FALSE,
         row |-> [row EXCEPT !.name = w.name, !.term = w.enrollment_term_id,
                             !.date_start = ds.value, !.date_end = de.value],
         fields |-> (IF name_changed THEN <<"name">> ELSE <<>>)
                    \o (IF term_changed THEN <<"term">> ELSE <<>>)
                    \o (IF ds.updated THEN <<"date_start">> ELSE <<>>)
                    \o (IF de.updated THEN <<"date_end">> ELSE <<>>)]

\* The body of update_course's loop for one Course row: the row as it would be
\* saved, the updated fields, and whether AcademicTerms.objects.get raised.
merge_course(id, row) ==
    LET w == warehouse_course_dict(id)
        name_changed == row.name # w.name
        term_changed == row.term = NULL \/ row.term # w.enrollment_term_id
        ds == soft_update_datetime_field(row.date_start, w.start_at)
        de == soft_update_datetime_field(row.date_end, w.conclude_at)
    IN  [raised |-> term_changed /\ w.enrollment_term_id \notin existing_terms_ids,
         row |-> [row EXCEPT !.name = w.name, !.term = w.enrollment_term_id,
                             !.date_start = ds.value, !.date_end = de.value],
         fields |-> (IF name_changed THEN <<"name">> ELSE <<>>)
                    \o (IF term_changed THEN <<"term">> ELSE <<>>)
                    \o (IF ds.updated THEN <<"date_start">> ELSE <<>>)
                    \o (IF de.updated THEN <<"date_end">> ELSE <<>>)]

\* Course.objects.filter(id__in=ids): the ids of the rows found, in key order.
filter_courses(ids) ==
    SelectSeq(SetToSortedSeq(DOMAIN course), LAMBDA id : id \in Range(ids))

RECURSIVE update_course_loop(_, _)
\* update_course's loop over `ids`, from the accumulated result `acc`
\* [course, status, ops, raised]; it stops at the first course that raises.
update_course_loop(ids, acc) ==
    IF ids = <<>> \/ acc.raised THEN acc
    ELSE LET id == Head(ids)
             m == merge_course(id, acc.course[id])
         IN  IF m.raised THEN [acc EXCEPT !.raised = TRUE]
             ELSE IF m.fields = <<>> THEN update_course_loop(Tail(ids), acc)
             ELSE update_course_loop(Tail(ids),
                    [acc EXCEPT !.course = [acc.course EXCEPT ![id] = m.row],
                                !.status = @ \o <<Entry("course", id, <<>>, m.fields)>>,
                                !.ops = @ \o <<<<"update", "course">>>>])

update_course ==
    update_course_loop(filter_courses(locked),
        [course |-> course,
         status |-> <<Entry("courses", Len(filter_courses(locked)), locked, <<>>)>>,
         ops |-> <<>>, raised |-> FALSE])

\* ------------------------------------------------------- TableSyncOperator
\* (a delete that removes no row)
delete_nothing(rows) == rows

\* delete_all_records_in_table without and with a WHERE access_time > %s clause.

delete_all_records_in_table(rows) == <<>>

\* (the same with WHERE access_time >= %s)
delete_records_from(rows, cutoff) ==
    IF cutoff = NULL THEN rows
    ELSE SelectSeq(rows, LAMBDA r : ~(r.access_time >= cutoff))

\* (a comparison with NULL selects no row)
delete_records_after(rows, cutoff) ==
    IF cutoff = NULL THEN rows
    ELSE SelectSeq(rows, LAMBDA r : ~(r.access_time > cutoff))

\* The rows util_function appends for one course: the query result, paired with
\* the course id for the weight query, without exact duplicates.
util_function(data_warehouse_course_id, mysql_table) ==
    LET df == wh_tables[mysql_table][data_warehouse_course_id]
        shaped == IF mysql_table = "assignment_weight_consideration"
                     /\ data_warehouse_course_id # NULL
                  THEN [i \in 1..Len(df) |->
                           [df[i] EXCEPT !.course_id = data_warehouse_course_id]]
                  ELSE df
    IN  drop_duplicates(shaped)

\* (a stage that loops over the Course rows of the moment, not the locked ids)
table_sync_supported(mysql_table, n) ==
    LET ids == IF n = Len(locked) THEN get_supported_courses ELSE SubSeq(locked, 1, n)
        parts == [i \in 1..Len(ids) |-> util_function(ids[i], mysql_table)]
    IN  [rows |-> delete_all_records_in_table(tables[mysql_table]) \o Concat(parts),
         status |-> <<Entry("deleted", Len(tables[mysql_table]), <<>>, <<mysql_table>>)>>
                    \o [i \in 1..Len(ids) |->
                           Entry("rows", Len(parts[i]), <<ids[i]>>, <<mysql_table>>)],
         ops |-> <<<<"delete", mysql_table>>>>
                 \o [i \in 1..n |-> <<"insert", mysql_table>>]]

\* A full-refresh stage (update_user, update_groups, update_assignment, submission,
\* weight_consideration) whose util_function calls succeed for the first n locked
\* courses: the table, the summary lines and the writes.
table_sync(mysql_table, n) ==
    LET parts == [i \in 1..n |-> util_function(locked[i], mysql_table)]
    IN  [rows |-> delete_all_records_in_table(tables[mysql_table]) \o Concat(parts),
         status |-> <<Entry("deleted", Len(tables[mysql_table]), <<>>, <<mysql_table>>)>>
                    \o [i \in 1..n |->
                           Entry("rows", Len(parts[i]), <<locked[i]>>, <<mysql_table>>)],
         ops |-> <<<<"delete", mysql_table>>>>
                 \o [i \in 1..n |-> <<"insert", mysql_table>>]]

\* ---------------------------------------------------------- SyncOrchestrator
StageTable == [user |-> "user", groups |-> "assignment_groups",
               assignment |-> "assignment", submission |-> "submission",
               weight |-> "assignment_weight_consideration"]
TableStages == DOMAIN StageTable

\* (do() without the test of line 782)
resources_always_enabled == TRUE

\* Line 782: 'show_resources_accessed' not in settings.VIEWS_DISABLED.
resources_enabled == ~settings.views_disabled

\* (do() calling update_assignment before update_groups)
NextStageSwapped == [user |-> "assignment", assignment |-> "groups",
                     groups |-> "submission", submission |-> "weight",
                     weight |-> IF resources_enabled THEN "resource_access"
                                ELSE "metadata"]

NextStage == [user |-> "groups", groups |-> "assignment",
              assignment |-> "submission", submission |-> "weight",
              weight |-> IF resources_enabled THEN "resource_access" ELSE "metadata"]

NoPrev == [synced |-> FALSE]

\* The run has been through the five full-refresh stages and none of them raised.
TablesSynced ==
    /\ TableStages \subseteq Range(stages)
    /\ pc \notin TableStages
    /\ ~(pc = "raised" /\ stages[Len(stages)] = "weight")

\* The run ended by an exception that left do(), or caught one (lines 786-789).
RunFailed == pc = "raised" \/ (pc = "done" /\ exception_in_run = "true")

\* The run went through the watermark commit of lines 800-805.
RunCommitted ==
    /\ pc = "done" /\ exception_in_run = "false"
    /\ stages # <<>> /\ stages[Len(stages)] = "commit"

\* ------------------------------------------------------------------ actions
\* do(), lines 736-742: a run starts when no run is in progress.
StartRun ==
    /\ pc \in {"idle", "done", "raised"}
    /\ runs < MaxRuns
    /\ runs' = runs + 1
    /\ now' = now + 1
    /\ run_start' = now + 1
    /\ pc' = "verify"
    /\ locked' = <<>>
    /\ course_data' = <<>>
    /\ invalid' = <<>>
    /\ exception_in_run' = "unbound"
    /\ status' = <<Entry("start", now + 1, <<>>, <<>>)>>
    /\ ra' = [cutoff |-> NULL, batches |-> <<>>, i |-> 0, status |-> <<>>,
              return_string |-> <<>>, fetched |-> <<>>, before |-> <<>>, df |-> <<>>,
              pulled |-> {}]
    /\ ops' = <<>>
    /\ stages' = <<>>
    /\ LET retry == RunFailed \/ (start.retry /\ ~RunCommitted)
       IN  start' = [course |-> course, wh_tables |-> wh_tables, retry |-> retry,
                     origin |-> IF retry THEN start.origin ELSE resource_access]
    /\ prev' = IF TablesSynced
               THEN [synced |-> TRUE, locked |-> locked,
                     tables |-> [t \in FullTables |-> tables[t]],
                     wh_tables |-> start.wh_tables,
                     tainted |-> exception_in_run = "true",
                     cutoff |-> ra.cutoff, pulled |-> ra.pulled]
               ELSE NoPrev
    /\ UNCHANGED <<store_vars, source_vars, edits>>

\* do(), lines 744-756: validation; any invalid id ends the run.
Verify ==
    /\ pc = "verify"
    /\ invalid' = verify_invalid_ids
    /\ course_data' = verify_course_data
    /\ stages' = stages \o <<"verify">>
    /\ IF Len(invalid') > 0
       THEN /\ status' = status \o <<Entry("invalid", 0, invalid', <<>>),
                                     Entry("end", 0, <<>>, <<>>)>>
            /\ pc' = "done"
            /\ locked' = locked
       ELSE /\ locked' = [i \in 1..Len(course_data') |-> course_data'[i].id]
            /\ pc' = "term"
            /\ status' = status
    /\ UNCHANGED <<store_vars, source_vars, now, runs, edits, run_start,
                   exception_in_run, ra, ops, start, prev>>

\* update_term(), then do() lines 763-768.
UpdateTerm ==
    /\ pc = "term"
    /\ stages' = stages \o <<"term">>
    /\ \E fails \in BOOLEAN :
         /\ fails => new_term_df # <<>>
         /\ term_insert_conflict => fails
         /\ IF fails
            THEN /\ pc' = "raised"
                 /\ UNCHANGED <<terms, ops, status, exception_in_run>>
            ELSE /\ terms' = append_terms(new_term_df)
                 /\ ops' = IF new_term_df = <<>> THEN ops
                           ELSE ops \o <<<<"insert", "academic_terms">>>>
                 /\ IF Len(locked) = 0
                    THEN /\ pc' = "metadata"
                         /\ exception_in_run' = exception_in_run
                    ELSE /\ pc' = "course"
                         /\ exception_in_run' = "false"
                 /\ status' = status
                      \o (IF new_term_df = <<>> THEN <<>>
                          ELSE <<Entry("terms", Len(new_term_df),
                                       [i \in 1..Len(new_term_df) |-> new_term_df[i].id],
                                       <<>>)>>)
                      \o (IF Len(locked) = 0
                          THEN <<Entry("skipped", 0, <<>>, <<>>)>> ELSE <<>>)
    /\ UNCHANGED <<course, tables, resource, resource_access, source_vars, now, runs, edits,
                   run_start, locked, course_data, invalid, ra, start, prev>>

\* update_course(course_verification.course_data).
UpdateCourse ==
    /\ pc = "course"
    /\ stages' = stages \o <<"course">>
    /\ LET r == update_course
       IN  /\ course' = r.course
           /\ ops' = ops \o r.ops
           /\ IF r.raised
              THEN pc' = "raised" /\ status' = status
              ELSE pc' = "user" /\ status' = status \o r.status
    /\ UNCHANGED <<terms, tables, resource, resource_access, source_vars, now, runs, edits,
                   run_start, locked, course_data, invalid, exception_in_run, ra,
                   start, prev>>

\* (a stage whose util_function swallows the error and lets the run go on)
TableSyncStageSwallowing(stage) ==
    /\ pc = stage
    /\ stages' = stages \o <<stage>>
    /\ \E n \in 0..Len(locked) :
         LET r == table_sync(StageTable[stage], n)
         IN  /\ tables' = [tables EXCEPT ![StageTable[stage]] = r.rows]
             /\ ops' = ops \o r.ops
             /\ pc' = NextStage[stage] /\ status' = status \o r.status
    /\ UNCHANGED <<course, terms, resource, resource_access, source_vars, now, runs, edits,
                   run_start, locked, course_data, invalid, exception_in_run, ra,
                   start, prev>>

\* A full-refresh stage: delete the table, then one util_function call per locked
\* course; a call that raises (its query or its insert) ends the run.
TableSyncStage(stage) ==
    /\ pc = stage
    /\ stages' = stages \o <<stage>>
    /\ \E n \in 0..Len(locked) :
         LET r == table_sync(StageTable[stage], n)
         IN  /\ tables' = [tables EXCEPT ![StageTable[stage]] = r.rows]
             /\ ops' = ops \o r.ops
             /\ IF n < Len(locked)
                THEN pc' = "raised" /\ status' = status
                ELSE pc' = NextStage[stage] /\ status' = status \o r.status
    /\ UNCHANGED <<course, terms, resource, resource_access, source_vars, now, runs, edits,
                   run_start, locked, course_data, invalid, exception_in_run, ra,
                   start, prev>>

UpdateUser == TableSyncStage("user")
UpdateGroups == TableSyncStage("groups")
UpdateAssignment == TableSyncStage("assignment")
Submission == TableSyncStage("submission")
WeightConsideration == TableSyncStage("weight")

\* ----------------------------------------------------- ResourceAccessSyncer
\* A user_id cell of the frame: an integer as fetched, or the string read from
\* cast(user_id as char); NaN is NaNUser.
IntUser(n) == [v |-> n, str |-> FALSE]
StrUser(n) == [v |-> n, str |-> TRUE]
NaNUser == IntUser(NULL)
SENTINEL == -1

\* Course rows' get_data_earliest_date(): the earliest data_last_updated of the
\* locked courses, absent when one of them has never been synchronised.
get_data_earliest_date(ids) ==
    LET found == {course[id].data_last_updated : id \in Range(filter_courses(ids))}
    IN  IF found = {} \/ NULL \in found THEN NULL
        ELSE CHOOSE d \in found : \A e \in found : d <= e

\* Lines 309-314: the cutoff condition the query of one configured resource kind
\* gets: the kind's own fragment, the generic one, or none.
cutoff_condition(query_obj, data_last_updated) ==
    IF data_last_updated = NULL THEN "none"
    ELSE IF query_obj.has_condition THEN "own"
    ELSE IF settings.lrs_is_bigquery THEN "generic"
    ELSE "none"

\* Whether the query of one configured resource kind carries a cutoff condition.
cutoff_applies(query_obj, data_last_updated) ==
    cutoff_condition(query_obj, data_last_updated) # "none"

\* The unioned query of one batch: per configured kind, the events of the batch's
\* courses that have happened, after the cutoff where the kind's query carries it.
resource_access_query(course_ids, data_last_updated) ==
    LET cfg == settings.resource_access_config
        one(q) == SelectSeq(lrs, LAMBDA e :
                      /\ e.kind = q.kind
                      /\ e.course_id \in Range(course_ids)
                      /\ e.access_time <= run_start
                      /\ cutoff_applies(q, data_last_updated)
                            => e.access_time > data_last_updated)
        rows == Concat([k \in 1..Len(cfg) |-> one(cfg[k])])
    IN  [i \in 1..Len(rows) |->
            [course_id |-> rows[i].course_id, resource_id |-> rows[i].resource_id,
             resource_type |-> rows[i].resource_type, name |-> rows[i].name,
             user_id |-> IntUser(rows[i].user_id),
             user_login_name |-> rows[i].user_login_name,
             access_time |-> rows[i].access_time]]

\* select sis_name, cast(user_id as char) from user where sis_name in (login names)
user_id_df(df) ==
    LET login_names == {df[i].user_login_name : i \in 1..Len(df)} \ {NULL}
        found == SelectSeq(tables["user"], LAMBDA u : u.val \in login_names)
    IN  [i \in 1..Len(found) |->
            [user_login_name |-> found[i].val, user_id_str |-> found[i].id]]

\* (the same merge with how='inner': left rows without a match are left out)
merge_inner(df, users) ==
    LET keys == {df[i].user_login_name : i \in 1..Len(df)}
        order == SetToSortedSeq(keys \ {NULL})
        matches(row) == SelectSeq(users, LAMBDA u :
                            u.user_login_name = row.user_login_name)
        expand(row) == [j \in 1..Len(matches(row)) |->
                           <<row, matches(row)[j].user_id_str>>]
        of_key(k) == LET left == SelectSeq(df, LAMBDA r : r.user_login_name = k)
                     IN  Concat([i \in 1..Len(left) |-> expand(left[i])])
    IN  Concat([k \in 1..Len(order) |-> of_key(order[k])])

\* pd.merge(df, users, on='user_login_name', how='outer'): the join keys in
\* lexicographic order (NaN last); per key the left rows in order, each once per
\* matching right row, or once with a NaN user_id_str when none matches.
merge_outer(df, users) ==
    LET keys == {df[i].user_login_name : i \in 1..Len(df)}
        order == SetToSortedSeq(keys \ {NULL})
                 \o (IF NULL \in keys THEN <<NULL>> ELSE <<>>)
        matches(row) == SelectSeq(users, LAMBDA u :
                            u.user_login_name = row.user_login_name)
        expand(row) == IF matches(row) = <<>> THEN <<<<row, NULL>>>>
                       ELSE [j \in 1..Len(matches(row)) |->
                                <<row, matches(row)[j].user_id_str>>]
        of_key(k) == LET left == SelectSeq(df, LAMBDA r : r.user_login_name = k)
                     IN  Concat([i \in 1..Len(left) |-> expand(left[i])])
    IN  Concat([k \in 1..Len(order) |-> of_key(order[k])])

drop_login(row) ==
    [course_id |-> row.course_id, resource_id |-> row.resource_id,
     resource_type |-> row.resource_type, name |-> row.name,
     user_id |-> row.user_id, access_time |-> row.access_time]

has_na(row) ==
    \/ row.course_id = NULL \/ row.resource_id = NULL \/ row.resource_type = NULL
    \/ row.name = NULL \/ row.user_id = NaNUser \/ row.access_time = NULL

\* (a dropna that drops no row)
dropna_nothing(df) == df

dropna(df) == SelectSeq(df, LAMBDA r : ~has_na(r))

\* Lines 370-384: with a sentinel in the frame and no login name at all the
\* user query reads `where sis_name in ()`, which the database refuses.
user_query_fails(df) ==
    /\ settings.has_user_login_name
    /\ \E i \in 1..Len(df) : df[i].user_id = IntUser(SENTINEL)
    /\ \A i \in 1..Len(df) : df[i].user_login_name = NULL

\* (identity resolution without the column test of line 365)
resolve_identities_any_frame(df) ==
    IF \E i \in 1..Len(df) : df[i].user_id = IntUser(SENTINEL)
    THEN LET m == merge_outer(df, user_id_df(df))
             fix(p) == IF p[1].user_id = IntUser(SENTINEL)
                       THEN [p[1] EXCEPT !.user_id =
                                IF p[2] = NULL THEN NaNUser ELSE StrUser(p[2])]
                       ELSE p[1]
         IN  dropna([i \in 1..Len(m) |-> drop_login(fix(m[i]))])
    ELSE dropna([i \in 1..Len(df) |-> drop_login(df[i])])

\* Lines 365-412: identity resolution when the frame has a user_login_name column
\* and a sentinel user id, removal of the helper columns, and dropna.
resolve_identities(df) ==
    IF ~settings.has_user_login_name
    THEN dropna([i \in 1..Len(df) |-> drop_login(df[i])])
    ELSE IF \E i \in 1..Len(df) : df[i].user_id = IntUser(SENTINEL)
    THEN LET m == merge_outer(df, user_id_df(df))
             fix(p) == IF p[1].user_id = IntUser(SENTINEL)
                       THEN [p[1] EXCEPT !.user_id =
                                IF p[2] = NULL THEN NaNUser ELSE StrUser(p[2])]
                       ELSE p[1]
         IN  dropna([i \in 1..Len(m) |-> drop_login(fix(m[i]))])
    ELSE dropna([i \in 1..Len(df) |-> drop_login(df[i])])

\* The subset drop_duplicates is given at line 415.
access_key(row) == <<row.resource_id, row.user_id, row.access_time>>

\* (the same with keep='last')
drop_duplicate_events_keep_last(df) ==
    LET keep(i) == \A j \in (i+1)..Len(df) : access_key(df[j]) # access_key(df[i])
        idx == SetToSortedSeq({i \in 1..Len(df) : keep(i)})
    IN  [k \in 1..Len(idx) |-> df[idx[k]]]

\* drop_duplicates(['resource_id', 'user_id', 'access_time'], keep='first')
drop_duplicate_events(df) ==
    LET keep(i) == \A j \in 1..(i-1) : access_key(df[j]) # access_key(df[i])
        idx == SetToSortedSeq({i \in 1..Len(df) : keep(i)})
    IN  [k \in 1..Len(idx) |-> df[idx[k]]]

\* (a catalog slice taken from the first row of the frame only)
resource_df_head(df) ==
    IF df = <<>> THEN <<>>
    ELSE <<[resource_id |-> df[1].resource_id,
            resource_type |-> df[1].resource_type, name |-> df[1].name]>>

\* resource_df: (resource_id, resource_type, name), one row per resource_id.
resource_df(df) ==
    LET keep(i) == \A j \in 1..(i-1) : df[j].resource_id # df[i].resource_id
        idx == SetToSortedSeq({i \in 1..Len(df) : keep(i)})
    IN  [k \in 1..Len(idx) |->
            [resource_id |-> df[idx[k]].resource_id,
             resource_type |-> df[idx[k]].resource_type, name |-> df[idx[k]].name]]

\* (an upsert that leaves existing rows alone: if_row_exists='ignore')
upsert_resource_ignore(rows, df) ==
    rows \cup {r \in Range(df) : \A q \in rows : q.resource_id # r.resource_id}

\* pangres.upsert(if_row_exists='update') on the key resource_id.
upsert_resource(rows, df) ==
    {r \in rows : \A i \in 1..Len(df) : df[i].resource_id # r.resource_id}
        \cup Range(df)

\* The rows to_sql appends to resource_access: the frame without the catalog
\* columns; the user_id column takes a numeric string as the number.
resource_access_rows(df) ==
    [i \in 1..Len(df) |->
        [resource_id |-> df[i].resource_id, user_id |-> df[i].user_id.v,
         access_time |-> df[i].access_time, course_id |-> df[i].course_id]]

\* (a loop without the `continue` of lines 354-356)
skip_batch_never(df) == FALSE

\* Lines 353-356: a batch without rows is skipped.
skip_batch(df) == Len(df) = 0

\* (do() without the try / except of lines 783-789: the exception ends the run)
Uncaught(what) ==
    /\ exception_in_run' = exception_in_run
    /\ status' = status
    /\ pc' = "raised"

\* (a try / except around update_resource_access alone: update_canvas_resource
\* still runs after a failed batch)
TaintedBeforeCanvas(what) ==
    /\ exception_in_run' = "true"
    /\ status' = status \o <<Entry("exception", 0, <<>>, <<what>>)>>
    /\ pc' = IF pc = "ra_batch" THEN "canvas" ELSE "metadata"

\* do(), lines 786-789: the exception is caught, recorded, and taints the run.
\* (The stage's own summary is lost: its return value was never appended.)
Tainted(what) ==
    /\ exception_in_run' = "true"
    /\ status' = status \o <<Entry("exception", 0, <<>>, <<what>>)>>
    /\ pc' = "metadata"

\* update_resource_access(), lines 293-297: the cutoff and the pre-emptive delete.
ResourceAccessBegin ==
    /\ pc = "resource_access"
    /\ stages' = stages \o <<"resource_access">>
    /\ LET data_last_updated == get_data_earliest_date(locked)
       IN  /\ resource_access' = delete_records_after(resource_access, data_last_updated)
           /\ ra' = [ra EXCEPT
                       !.cutoff = data_last_updated,
                       !.batches = split_list(locked, settings.cron_bq_in_limit),
                       !.i = 1,
                       !.status = <<Entry("deleted",
                                      Len(resource_access) - Len(resource_access'),
                                      <<>>, <<"resource_access">>)>>,
                       !.return_string = <<>>]
    /\ ops' = ops \o <<<<"delete", "resource_access">>>>
    /\ pc' = "ra_batch"
    /\ UNCHANGED <<course, terms, tables, resource, source_vars, now, runs, edits, run_start,
                   locked, course_data, invalid, exception_in_run, status, start, prev>>

\* update_resource_access(), lines 300-474: one iteration of the batch loop, and
\* after the last one lines 476-482 and the return into do().
ResourceAccessBatch ==
    /\ pc = "ra_batch"
    /\ LET ids == ra.batches[ra.i]
           fetched == resource_access_query(ids, ra.cutoff)
           before == resolve_identities(fetched)
           df == drop_duplicate_events(before)
           last == ra.i = Len(ra.batches)
           Continue(ra2) ==
               /\ ra' = [ra2 EXCEPT !.i = @ + 1]
               /\ exception_in_run' = exception_in_run
               /\ IF last
                  THEN /\ pc' = "canvas"
                       /\ status' = status \o ra.status
                            \o (IF settings.lrs_is_bigquery
                                THEN <<Entry("billed", 0, <<>>, <<>>)>> ELSE <<>>)
                  ELSE pc' = pc /\ status' = status
       IN  \E outcome \in {"ok", "query", "upsert", "append"} :
             CASE outcome = "query" ->
                    /\ Tainted("query")
                    /\ UNCHANGED <<resource, resource_access, ra, ops>>
               [] outcome = "ok" /\ ~skip_batch(fetched) /\ user_query_fails(fetched) ->
                    /\ Tainted("user query")
                    /\ ra' = [ra EXCEPT !.fetched = fetched,
                                        !.pulled = @ \cup Range(fetched)]
                    /\ UNCHANGED <<resource, resource_access, ops>>
               [] outcome = "ok" /\ skip_batch(fetched) ->
                    /\ Continue([ra EXCEPT !.fetched = fetched, !.before = <<>>,
                                           !.df = <<>>])
                    /\ UNCHANGED <<resource, resource_access, ops>>
               [] outcome = "upsert" /\ ~skip_batch(fetched) /\ ~user_query_fails(fetched) ->
                    /\ Tainted("upsert")
                    /\ ra' = [ra EXCEPT !.pulled = @ \cup Range(fetched)]
                    /\ UNCHANGED <<resource, resource_access, ops>>
               [] outcome = "append" /\ ~skip_batch(fetched) /\ ~user_query_fails(fetched) ->
                    /\ Tainted("append")
                    /\ resource' = upsert_resource(resource, resource_df(df))
                    /\ ops' = ops \o <<<<"upsert", "resource">>>>
                    /\ ra' = [ra EXCEPT !.pulled = @ \cup Range(fetched)]
                    /\ UNCHANGED resource_access
               [] outcome = "ok" /\ ~skip_batch(fetched) /\ ~user_query_fails(fetched) ->
                    /\ resource' = upsert_resource(resource, resource_df(df))
                    /\ resource_access' = resource_access \o resource_access_rows(df)
                    /\ ops' = ops \o <<<<"upsert", "resource">>,
                                       <<"insert", "resource_access">>>>
                    /\ Continue([ra EXCEPT
                                   !.fetched = fetched, !.before = before, !.df = df,
                                   !.pulled = @ \cup Range(fetched),
                                   !.return_string =
                                       @ \o <<Entry("rows", Len(df), ids, <<>>)>>])
               [] OTHER -> FALSE
    /\ UNCHANGED <<course, terms, tables, source_vars, now, runs, edits, run_start, locked,
                   course_data, invalid, stages, start, prev>>

RECURSIVE canvas_resource_loop(_, _)
\* update_canvas_resource's loop: an available file renames the Resource rows of
\* its id, any other file deletes them.
canvas_resource_loop(files, rows) ==
    IF files = <<>> THEN rows
    ELSE LET f == Head(files)
             next == IF f.available
                     THEN {IF r.resource_id = f.id
                           THEN [r EXCEPT !.name = f.display_name] ELSE r : r \in rows}
                     ELSE {r \in rows : r.resource_id # f.id}
         IN  canvas_resource_loop(Tail(files), next)

\* The rows of resource_access once the Resource rows of the ids are deleted.
\* ResourceAccessEvent is append-only and holds resource_id as a plain field, so
\* the events of a deleted Resource row stay.
on_delete_resource(events, ids) == events

\* update_canvas_resource(): the file query may raise before any row is touched.
UpdateCanvasResource ==
    /\ pc = "canvas"
    /\ stages' = stages \o <<"canvas">>
    /\ LET df_attach == SelectSeq(wh_files, LAMBDA f : f.course_id \in Range(locked))
       IN  \E raises \in BOOLEAN :
             IF raises
             THEN /\ Tainted("canvas")
                  /\ UNCHANGED <<resource, resource_access, ops>>
             ELSE /\ resource' = canvas_resource_loop(df_attach, resource)
                  /\ resource_access' = on_delete_resource(resource_access,
                          {df_attach[i].id : i \in {j \in 1..Len(df_attach) :
                                                       ~df_attach[j].available}})
                  /\ ops' = ops \o [i \in 1..Len(df_attach) |->
                                <<IF df_attach[i].available THEN "update" ELSE "delete",
                                  "resource">>]
                  /\ status' = status \o [i \in 1..Len(df_attach) |->
                                Entry(IF df_attach[i].available THEN "renamed"
                                      ELSE "removed", df_attach[i].id, <<>>, <<>>)]
                  /\ pc' = "metadata"
                  /\ exception_in_run' = exception_in_run
    /\ UNCHANGED <<course, terms, tables, source_vars, now, runs, edits,
                   run_start, locked, course_data, invalid, ra, start, prev>>

\* do(), lines 791-793, and update_unizin_metadata().
UpdateUnizinMetadata ==
    /\ pc = "metadata"
    /\ IF settings.is_unizin
       THEN /\ stages' = stages \o <<"metadata">>
            /\ \E fails \in BOOLEAN :
                 LET rows == IF fails THEN <<>> ELSE util_function(NULL, "unizin_metadata")
                 IN  /\ tables' = [tables EXCEPT !["unizin_metadata"] = rows]
                     /\ ops' = ops \o <<<<"delete", "unizin_metadata">>>>
                               \o (IF fails THEN <<>>
                                   ELSE <<<<"insert", "unizin_metadata">>>>)
                     /\ IF fails
                        THEN pc' = "raised" /\ status' = status
                        ELSE /\ pc' = "commit"
                             /\ status' = status \o
                                  <<Entry("deleted", Len(tables["unizin_metadata"]),
                                          <<>>, <<"unizin_metadata">>),
                                    Entry("rows", Len(rows), <<>>, <<"unizin_metadata">>)>>
       ELSE /\ pc' = "commit"
            /\ UNCHANGED <<tables, ops, status, stages>>
    /\ UNCHANGED <<course, terms, resource, resource_access, source_vars, now, runs, edits,
                   run_start, locked, course_data, invalid, exception_in_run, ra,
                   start, prev>>

\* (an update that reaches the first of the ids only)
commit_watermark_first(ids, at) ==
    [id \in DOMAIN course |->
        IF ids # <<>> /\ id = ids[1] THEN [course[id] EXCEPT !.data_last_updated = at]
        ELSE course[id]]

\* The same update without the id__in filter.
commit_watermark_all(ids, at) ==
    [id \in DOMAIN course |-> [course[id] EXCEPT !.data_last_updated = at]]

\* Course.objects.filter(id__in=ids).update(data_last_updated=at)
commit_watermark(ids, at) ==
    [id \in DOMAIN course |->
        IF id \in Range(ids) THEN [course[id] EXCEPT !.data_last_updated = at]
        ELSE course[id]]

\* (a commit that does not look at exception_in_run)
CommitAlways ==
    /\ pc = "commit"
    /\ stages' = stages \o <<"commit">>
    /\ course' = commit_watermark(locked, run_start)
    /\ ops' = ops \o <<<<"watermark", "course">>>>
    /\ status' = status \o <<Entry("end", 0, <<>>, <<>>)>>
    /\ pc' = "done"
    /\ UNCHANGED <<terms, tables, resource, resource_access, source_vars, now, runs, edits,
                   run_start, locked, course_data, invalid, exception_in_run, ra,
                   start, prev>>

\* do(), lines 795-811: the watermark commit and the end of the run.  Reading
\* exception_in_run where it was never assigned raises.
Commit ==
    /\ pc = "commit"
    /\ stages' = stages \o <<"commit">>
    /\ CASE exception_in_run = "unbound" ->
              /\ pc' = "raised"
              /\ UNCHANGED <<course, ops, status>>
         [] exception_in_run = "false" ->
              /\ course' = commit_watermark(locked, run_start)
              /\ ops' = ops \o <<<<"watermark", "course">>>>
              /\ status' = status \o <<Entry("end", 0, <<>>, <<>>)>>
              /\ pc' = "done"
         [] exception_in_run = "true" ->
              /\ status' = status \o <<Entry("end", 0, <<>>, <<>>)>>
              /\ pc' = "done"
              /\ UNCHANGED <<course, ops>>
    /\ UNCHANGED <<terms, tables, resource, resource_access, source_vars, now, runs, edits,
                   run_start, locked, course_data, invalid, exception_in_run, ra,
                   start, prev>>

\* ------------------------------------------------------------- environment
\* A Course row as an administrator creates it: never synchronised.
FreshCourse == [name |-> 1, term |-> NULL, date_start |-> NoneDate,
                date_end |-> NoneDate, data_last_updated |-> NULL]

\* An administrator adds a course, between two runs or during one (do() line 795
\* expects it).  A run reads the set of Course rows at validation and filters by
\* the locked ids afterwards, so one point after validation stands for all.
AddCourse ==
    /\ pc = "term" \/ (pc \in {"done", "raised"} /\ runs < MaxRuns)
    /\ edits < MaxEdits
    /\ edits' = edits + 1
    /\ \E c \in CourseIds \ DOMAIN course :
         course' = [id \in DOMAIN course \cup {c} |->
                       IF id = c THEN FreshCourse ELSE course[id]]
    /\ UNCHANGED <<terms, tables, resource, resource_access, source_vars, pc, now,
                   runs, run_start, locked, course_data, invalid, exception_in_run,
                   status, ra, hist_vars>>

\* An administrator deletes a course, between two runs or during one.
RemoveCourse ==
    /\ pc = "term" \/ (pc \in {"done", "raised"} /\ runs < MaxRuns)
    /\ edits < MaxEdits
    /\ edits' = edits + 1
    /\ \E c \in DOMAIN course :
         course' = [id \in DOMAIN course \ {c} |-> course[id]]
    /\ UNCHANGED <<terms, tables, resource, resource_access, source_vars, pc, now,
                   runs, run_start, locked, course_data, invalid, exception_in_run,
                   status, ra, hist_vars>>

\* Two contents of the warehouse tables behind util_function's queries.  Version 2
\* holds exact duplicate rows.  User rows are [course_id, id = user id, val = login
\* name]; the weight query returns one row without a course column.
WarehouseRows(t, c, v) ==
    CASE t = "unizin_metadata" ->
           IF c = NULL THEN <<[course_id |-> NULL, id |-> 1, val |-> v]>> ELSE <<>>
      [] c = NULL -> <<>>
      [] t = "assignment_weight_consideration" ->
           <<[course_id |-> NULL, id |-> NULL, val |-> v - 1]>>
      [] t = "user" ->
           IF v = 1 THEN <<[course_id |-> c, id |-> 6 + c, val |-> c]>>
           ELSE <<[course_id |-> c, id |-> 6 + c, val |-> c],
                  [course_id |-> c, id |-> 6 + c, val |-> c],
                  [course_id |-> c, id |-> 9, val |-> 3]>>
      [] OTHER ->
           IF v = 1 THEN <<[course_id |-> c, id |-> 1, val |-> 1]>>
           ELSE <<[course_id |-> c, id |-> 1, val |-> 2],
                  [course_id |-> c, id |-> 2, val |-> 1],
                  [course_id |-> c, id |-> 1, val |-> 2]>>

WarehouseSnapshot(v) ==
    [t \in AllTables |-> [c \in CourseIds \cup {NULL} |-> WarehouseRows(t, c, v)]]

\* The warehouse is reloaded between two runs.
WarehouseChange ==
    /\ pc \in {"done", "raised"} /\ runs < MaxRuns
    /\ \E v \in 1..2 : wh_tables' = WarehouseSnapshot(v) /\ wh_tables' # wh_tables
    /\ UNCHANGED <<store_vars, wh_courses, wh_terms, wh_files, lrs, settings,
                   run_vars, hist_vars>>

\* The warehouse row of a course: term 1, name 1, a start date, no end date.
WhCourse(c) == [id |-> c, enrollment_term_id |-> 1, name |-> 1,
                start_at |-> [t |-> 1, tz |-> "naive"], conclude_at |-> NoneDate]

\* The same course after it was renamed, moved to term 2 and given other dates.
WhCourseMoved(c) == [id |-> c, enrollment_term_id |-> 2, name |-> 2,
                     start_at |-> [t |-> 3, tz |-> "naive"],
                     conclude_at |-> [t |-> 4, tz |-> "naive"]]

\* Two contents of the warehouse course table: in version 2 course 1 has moved.
WarehouseCourses(v) ==
    [c \in CourseIds |-> <<IF v = 2 /\ c = 1 THEN WhCourseMoved(c) ELSE WhCourse(c)>>]

\* The warehouse course table is reloaded between two runs.
WarehouseCourseChange ==
    /\ pc \in {"done", "raised"} /\ runs < MaxRuns
    /\ \E v \in 1..2 : wh_courses' = WarehouseCourses(v) /\ wh_courses' # wh_courses
    /\ UNCHANGED <<store_vars, wh_terms, wh_tables, wh_files, lrs, settings,
                   run_vars, hist_vars>>

\* ------------------------------------------------------------ initial states
EmptyTables == [t \in AllTables |-> <<>>]
NoLocals == [cutoff |-> NULL, batches |-> <<>>, i |-> 0, status |-> <<>>,
             return_string |-> <<>>, fetched |-> <<>>, before |-> <<>>, df |-> <<>>,
             pulled |-> {}]

\* The state before the first run, the store and the sources drawn from the
\* given sets; Stored is what earlier runs left in resource and resource_access.
InitWith(Courses, Terms, WhCourses, WhTerms, WhVersions, WhFiles, Lrs, Settings, Stored) ==
    /\ course \in Courses
    /\ terms \in Terms
    /\ tables = EmptyTables
    /\ \E st \in Stored : resource = st.resource /\ resource_access = st.resource_access
    /\ wh_courses \in WhCourses
    /\ wh_terms \in WhTerms
    /\ wh_tables \in {WarehouseSnapshot(v) : v \in WhVersions}
    /\ wh_files \in WhFiles
    /\ lrs \in Lrs
    /\ settings \in Settings
    /\ pc = "idle"
    /\ now = 0
    /\ runs = 0
    /\ edits = 0
    /\ run_start = 0
    /\ locked = <<>>
    /\ course_data = <<>>
    /\ invalid = <<>>
    /\ exception_in_run = "unbound"
    /\ status = <<>>
    /\ ra = NoLocals
    /\ ops = <<>>
    /\ stages = <<>>
    /\ start = [course |-> course, wh_tables |-> wh_tables, retry |-> FALSE,
                origin |-> resource_access]
    /\ prev = NoPrev

\* The same with resource and resource_access empty.
InitFrom(Courses, Terms, WhCourses, WhTerms, WhVersions, WhFiles, Lrs, Settings) ==
    InitWith(Courses, Terms, WhCourses, WhTerms, WhVersions, WhFiles, Lrs, Settings,
             {[resource |-> {}, resource_access |-> <<>>]})

\* One file access of user 7 (login name 1) per course, on the course's own file.
Event(c, t) == [kind |-> "file", course_id |-> c, resource_id |-> c,
                resource_type |-> 1, name |-> 1, user_id |-> 7,
                user_login_name |-> 1, access_time |-> t]

DefaultSettings == [views_disabled |-> FALSE, is_unizin |-> TRUE,
                    lrs_is_bigquery |-> TRUE, cron_bq_in_limit |-> 1,
                    has_user_login_name |-> TRUE,
                    resource_access_config |->
                        <<[kind |-> "file", has_condition |-> FALSE]>>]

CourseTables(Rows) == UNION {[S -> Rows] : S \in SUBSET CourseIds}

Init ==
    InitFrom(CourseTables({FreshCourse}),
             {{}},
             [CourseIds -> {<<>>}] \cup {[c \in CourseIds |-> <<WhCourse(c)>>]}
                \cup {[c \in CourseIds |-> IF c = 1 THEN <<WhCourse(c)>> ELSE <<>>]},
             {<<[id |-> 1, name |-> 1]>>},
             {1},
             {<<>>},
             {<<Event(1, 1), Event(2, 1)>>},
             {[DefaultSettings EXCEPT !.views_disabled = d, !.is_unizin = u] :
                 d \in BOOLEAN, u \in BOOLEAN})

\* The steps of the job: do(), run after run.
Job ==
    \/ StartRun
    \/ Verify
    \/ UpdateTerm
    \/ UpdateCourse
    \/ UpdateUser
    \/ UpdateGroups
    \/ UpdateAssignment
    \/ Submission
    \/ WeightConsideration
    \/ ResourceAccessBegin
    \/ ResourceAccessBatch
    \/ UpdateCanvasResource
    \/ UpdateUnizinMetadata
    \/ Commit

\* The job, and administrators adding and deleting Course rows.
Next ==
    \/ Job
    \/ AddCourse
    \/ RemoveCourse

Spec == Init /\ [][Next]_vars

\* --- the full-refresh tables: every supported course is valid, the warehouse
\* tables are reloaded between runs, no events.
InitTables ==
    InitFrom(CourseTables({FreshCourse}), {{}}, {WarehouseCourses(1)},
             {<<[id |-> 1, name |-> 1]>>}, {1, 2}, {<<>>}, {<<>>}, {DefaultSettings})

NextTables == Next \/ WarehouseChange

SpecTables == InitTables /\ [][NextTables]_vars

\* --- deduplication: event batches that repeat an access key, warehouse tables
\* that repeat rows; the Course rows stay as they are.
\* The access of Event(1, 1) reported again under another resource name.
EventRenamed == [Event(1, 1) EXCEPT !.name = 2]

EventSeqs == UNION {[1..n -> {Event(1, 1), EventRenamed}] : n \in 0..3}

InitDedupe ==
    InitFrom({[c \in CourseIds |-> FreshCourse]}, {{}}, {WarehouseCourses(1)},
             {<<[id |-> 1, name |-> 1]>>}, {2}, {<<>>},
             {s \o <<Event(2, 1)>> : s \in EventSeqs},
             {[DefaultSettings EXCEPT !.cron_bq_in_limit = n] : n \in 1..2})

SpecDedupe == InitDedupe /\ [][Job]_vars

\* --- resources and events: a resource that is accessed again under another name
\* after the first run, and from a second course; a warehouse file record.
EventLater == [Event(1, 2) EXCEPT !.name = 2]
EventShared == [Event(2, 1) EXCEPT !.resource_id = 1, !.name = 3]
FileRenamed == [id |-> 1, course_id |-> 1, available |-> TRUE, display_name |-> 4]

InitResources ==
    InitFrom({[c \in CourseIds |-> FreshCourse]}, {{}}, {WarehouseCourses(1)},
             {<<[id |-> 1, name |-> 1]>>}, {1}, {<<>>, <<FileRenamed>>},
             {<<Event(1, 1), EventLater, EventShared>>,
              <<Event(1, 1), EventLater, Event(2, 1)>>},
             {[DefaultSettings EXCEPT !.cron_bq_in_limit = n] : n \in 1..2})

SpecResources == InitResources /\ [][Job]_vars

\* --- identities: events that carry the sentinel user id, with a login name the
\* user table knows (login 1 is user 7), one it does not know, or none.
EventByLogin == [Event(1, 1) EXCEPT !.user_id = SENTINEL]
EventUnknownLogin == [Event(1, 1) EXCEPT !.user_id = SENTINEL, !.user_login_name = 5,
                                        !.resource_id = 3]
EventNoLogin == [Event(1, 1) EXCEPT !.user_id = SENTINEL, !.user_login_name = NULL]

InitIdentities ==
    InitFrom({[c \in CourseIds |-> FreshCourse]}, {{}}, {WarehouseCourses(1)},
             {<<[id |-> 1, name |-> 1]>>}, {1}, {<<>>},
             {<<EventUnknownLogin, Event(1, 1), Event(2, 1)>>,
              <<EventByLogin, EventUnknownLogin, Event(2, 1)>>,
              <<EventUnknownLogin>>,
              <<EventNoLogin, Event(2, 1)>>},
             {[DefaultSettings EXCEPT !.cron_bq_in_limit = n] : n \in 1..2})

SpecIdentities == InitIdentities /\ [][Job]_vars

\* --- the login-name column: the events of SpecIdentities, fetched by queries
\* that select a user_login_name column or do not.
InitColumns ==
    InitFrom({[c \in CourseIds |-> FreshCourse]}, {{}}, {WarehouseCourses(1)},
             {<<[id |-> 1, name |-> 1]>>}, {1}, {<<>>},
             {<<EventUnknownLogin, Event(1, 1), Event(2, 1)>>,
              <<EventByLogin, EventUnknownLogin, Event(2, 1)>>,
              <<EventNoLogin, Event(2, 1)>>},
             {[DefaultSettings EXCEPT !.cron_bq_in_limit = n,
                                      !.has_user_login_name = h] :
                 n \in 1..2, h \in BOOLEAN})

SpecColumns == InitColumns /\ [][Job]_vars

\* --- login-name lookups: accesses of user 7 reported with a login name the
\* user table does not hold, or with none, next to sentinel rows or without any.
EventUnmapped == [Event(1, 1) EXCEPT !.user_login_name = 6, !.resource_id = 5]
EventAnonymous == [Event(1, 1) EXCEPT !.user_login_name = NULL, !.resource_id = 6]

InitLookups ==
    InitFrom({[c \in CourseIds |-> FreshCourse]}, {{}}, {WarehouseCourses(1)},
             {<<[id |-> 1, name |-> 1]>>}, {1}, {<<>>},
             {<<Event(1, 1), EventUnmapped, EventAnonymous, Event(2, 1)>>,
              <<EventUnmapped, EventByLogin, EventAnonymous, Event(2, 1)>>,
              <<EventUnknownLogin, EventUnmapped>>},
             {[DefaultSettings EXCEPT !.cron_bq_in_limit = n] : n \in 1..2})

SpecLookups == InitLookups /\ [][Job]_vars

\* --- retries: courses that are new or were synchronised before the first run
\* observed (at time -1), events before and after the first run.
SyncedCourse == [name |-> 1, term |-> 1, date_start |-> [t |-> 1, tz |-> "UTC"],
                 date_end |-> NoneDate, data_last_updated |-> -1]

InitRetry ==
    InitFrom({[c \in CourseIds |-> FreshCourse], [c \in CourseIds |-> SyncedCourse]},
             {{[id |-> 1, name |-> 1]}}, {WarehouseCourses(1)},
             {<<[id |-> 1, name |-> 1]>>}, {1}, {<<>>},
             {<<Event(1, 1), EventLater, Event(2, 1)>>},
             {[DefaultSettings EXCEPT !.cron_bq_in_limit = n] : n \in 1..2})

SpecRetry == InitRetry /\ [][Job]_vars

\* --- the pre-emptive delete: course 1 was synchronised at time -3 by a run that
\* appended its access of time -4 and the one of time -3; a later, tainted run
\* appended the access of time -2.  Course 2 is as old, or new.
OldCourse == [SyncedCourse EXCEPT !.data_last_updated = -3]

StoredEvent(c, t) == [resource_id |-> c, user_id |-> 7, access_time |-> t, course_id |-> c]

InitDelete ==
    InitWith({[c \in CourseIds |-> OldCourse],
              [c \in CourseIds |-> IF c = 1 THEN OldCourse ELSE FreshCourse]},
             {{[id |-> 1, name |-> 1]}}, {WarehouseCourses(1)},
             {<<[id |-> 1, name |-> 1]>>}, {1}, {<<>>},
             {<<Event(1, -4), Event(1, -3), Event(1, -2), Event(1, 1), Event(2, 1)>>},
             {[DefaultSettings EXCEPT !.cron_bq_in_limit = n] : n \in 1..2},
             {[resource |-> {[resource_id |-> 1, resource_type |-> 1, name |-> 1]},
               resource_access |-> <<StoredEvent(1, -4), StoredEvent(1, -3),
                                     StoredEvent(1, -2)>>]})

SpecDelete == InitDelete /\ [][Job]_vars

\* --- resource kinds: two configured kinds, each with or without a cutoff
\* fragment of its own, on either backend; course 1 has a page access as well.
PageEvent(t) == [Event(1, t) EXCEPT !.kind = "page", !.resource_id = 4]

InitKinds ==
    InitWith({[c \in CourseIds |-> FreshCourse], [c \in CourseIds |-> OldCourse]},
             {{[id |-> 1, name |-> 1]}}, {WarehouseCourses(1)},
             {<<[id |-> 1, name |-> 1]>>}, {1}, {<<>>},
             {<<Event(1, 1), PageEvent(1), Event(2, 1)>>},
             {[DefaultSettings EXCEPT
                 !.lrs_is_bigquery = bq,
                 !.resource_access_config = <<[kind |-> "file", has_condition |-> f],
                                              [kind |-> "page", has_condition |-> g]>>] :
                 bq \in BOOLEAN, f \in BOOLEAN, g \in BOOLEAN},
             {[resource |-> {}, resource_access |-> <<>>]})

SpecKinds == InitKinds /\ [][Job]_vars

\* --- split_list on its own: lists of ids up to MaxLen, sizes up to MaxSize, next
\* to the runs of SpecResources, where update_resource_access applies it.
ListIds == 1..3

InitSplitList ==
    /\ locked \in UNION {[1..n -> ListIds] : n \in 0..MaxLen}
    /\ settings \in {[DefaultSettings EXCEPT !.cron_bq_in_limit = n] : n \in 1..MaxSize}
    /\ pc = "split_list"
    /\ course = <<>>
    /\ terms = {}
    /\ tables = EmptyTables
    /\ resource = {}
    /\ resource_access = <<>>
    /\ wh_courses = WarehouseCourses(1)
    /\ wh_terms = <<>>
    /\ wh_tables = WarehouseSnapshot(1)
    /\ wh_files = <<>>
    /\ lrs = <<>>
    /\ now = 0
    /\ runs = 0
    /\ edits = 0
    /\ run_start = 0
    /\ course_data = <<>>
    /\ invalid = <<>>
    /\ exception_in_run = "unbound"
    /\ status = <<>>
    /\ ra = NoLocals
    /\ ops = <<>>
    /\ stages = <<>>
    /\ start = [course |-> course, wh_tables |-> wh_tables, retry |-> FALSE,
                origin |-> resource_access]
    /\ prev = NoPrev

\* One call of split_list, as at line 300.
SplitList ==
    /\ pc = "split_list"
    /\ ra' = [ra EXCEPT !.batches = split_list(locked, settings.cron_bq_in_limit)]
    /\ pc' = "split"
    /\ UNCHANGED <<store_vars, source_vars, now, runs, edits, run_start, locked,
                   course_data, invalid, exception_in_run, status, hist_vars>>

InitSplit == InitSplitList \/ InitResources

NextSplit == SplitList \/ Job

SpecSplit == InitSplit /\ [][NextSplit]_vars

\* --- batches without rows: course 1 has no access before the second run, or
\* no course has one.
InitSkip ==
    InitFrom({[c \in CourseIds |-> FreshCourse]}, {{}}, {WarehouseCourses(1)},
             {<<[id |-> 1, name |-> 1]>>}, {1}, {<<>>},
             {<<Event(2, 1), EventLater>>, <<EventLater>>, <<>>},
             {[DefaultSettings EXCEPT !.cron_bq_in_limit = n] : n \in 1..2})

SpecSkip == InitSkip /\ [][Job]_vars

\* --- the feature flag: the store of SpecDelete and a warehouse file record,
\* with the resource views enabled or disabled.
InitDisabled ==
    InitWith({[c \in CourseIds |-> OldCourse],
              [c \in CourseIds |-> IF c = 1 THEN OldCourse ELSE FreshCourse]},
             {{[id |-> 1, name |-> 1]}}, {WarehouseCourses(1)},
             {<<[id |-> 1, name |-> 1]>>}, {1}, {<<FileRenamed>>},
             {<<Event(1, -4), Event(1, -3), Event(1, -2), Event(1, 1), Event(2, 1)>>},
             {[DefaultSettings EXCEPT !.views_disabled = d] : d \in BOOLEAN},
             {[resource |-> {[resource_id |-> 1, resource_type |-> 1, name |-> 1]},
               resource_access |-> <<StoredEvent(1, -4), StoredEvent(1, -3),
                                     StoredEvent(1, -2)>>]})

SpecDisabled == InitDisabled /\ [][Job]_vars

\* --- courses and terms: Course rows an administrator has filled in, existing
\* term rows, and a warehouse whose course table is reloaded between runs.
EditedCourse == [name |-> 2, term |-> NULL,
                 date_start |-> [t |-> 5, tz |-> "UTC"],
                 date_end |-> [t |-> 6, tz |-> "UTC"], data_last_updated |-> NULL]

InitCourses ==
    InitFrom({[c \in CourseIds |-> IF c = 1 THEN EditedCourse ELSE FreshCourse],
              [c \in {1} |-> EditedCourse]},
             {{}, {[id |-> 1, name |-> 9]}},
             {WarehouseCourses(v) : v \in 1..2},
             {<<[id |-> 1, name |-> 1]>>,
              <<[id |-> 1, name |-> 1], [id |-> 2, name |-> 2]>>},
             {1}, {<<>>}, {<<>>}, {DefaultSettings})

NextCourses == Next \/ WarehouseCourseChange

SpecCourses == InitCourses /\ [][NextCourses]_vars

\* --- soft_update_datetime_field on its own: one Course instance whose
\* date_start is unset or set, and a warehouse value that is absent, naive or
\* zone-aware; next to the runs of InitCourses, where update_course applies it.
Dates == {NoneDate, [t |-> 1, tz |-> "naive"], [t |-> 1, tz |-> "UTC"],
          [t |-> 3, tz |-> "naive"], [t |-> 5, tz |-> "UTC"]}

InitSoftUpdateField ==
    /\ \E current \in Dates :
          course = [c \in {1} |-> [FreshCourse EXCEPT !.date_start = current]]
    /\ \E w \in Dates : course_data = <<[WhCourse(1) EXCEPT !.start_at = w]>>
    /\ pc = "soft_update"
    /\ terms = {}
    /\ tables = EmptyTables
    /\ resource = {}
    /\ resource_access = <<>>
    /\ wh_courses = WarehouseCourses(1)
    /\ wh_terms = <<>>
    /\ wh_tables = WarehouseSnapshot(1)
    /\ wh_files = <<>>
    /\ lrs = <<>>
    /\ settings = DefaultSettings
    /\ now = 0
    /\ runs = 0
    /\ edits = 0
    /\ run_start = 0
    /\ locked = <<1>>
    /\ invalid = <<>>
    /\ exception_in_run = "unbound"
    /\ status = <<>>
    /\ ra = NoLocals
    /\ ops = <<>>
    /\ stages = <<>>
    /\ start = [course |-> course, wh_tables |-> wh_tables, retry |-> FALSE,
                origin |-> resource_access]
    /\ prev = NoPrev

\* One call soft_update_datetime_field(course, 'date_start', warehouse_date_start),
\* as at line 726: the instance afterwards and the list returned.
SoftUpdate ==
    /\ pc = "soft_update"
    /\ LET r == soft_update_datetime_field(course[1].date_start, course_data[1].start_at)
       IN  /\ course' = [course EXCEPT ![1].date_start = r.value]
           /\ status' = <<Entry("course", 1, <<>>,
                                IF r.updated THEN <<"date_start">> ELSE <<>>)>>
    /\ pc' = "soft_updated"
    /\ UNCHANGED <<terms, tables, resource, resource_access, source_vars, now, runs,
                   edits, run_start, locked, course_data, invalid, exception_in_run,
                   ra, hist_vars>>

InitSoftUpdate == InitSoftUpdateField \/ InitCourses

NextSoftUpdate == SoftUpdate \/ Job

SpecSoftUpdate == InitSoftUpdate /\ [][NextSoftUpdate]_vars

\* --- update_course run after run over one warehouse snapshot: a course that is
\* up to date next to a new one or to one an administrator filled in.
InitCourseRuns ==
    InitFrom({[c \in CourseIds |-> IF c = 1 THEN EditedCourse ELSE SyncedCourse],
              [c \in CourseIds |-> IF c = 1 THEN FreshCourse ELSE SyncedCourse],
              [c \in CourseIds |-> FreshCourse]},
             {{[id |-> 1, name |-> 1]}},
             {WarehouseCourses(v) : v \in 1..2},
             {<<[id |-> 1, name |-> 1]>>,
              <<[id |-> 1, name |-> 1], [id |-> 2, name |-> 2]>>},
             {1}, {<<>>}, {<<>>}, {DefaultSettings})

SpecCourseRuns == InitCourseRuns /\ [][Job]_vars

\* ------------------------------------------------------------- properties
\* The supported ids of the run in progress that have no warehouse course record.
UnmatchedIds == {id \in DOMAIN start.course : wh_courses[id] = <<>>}

\* C1: when a supported course id has no warehouse course record, the run ends at
\* validation: it issues no write to the operational store and its summary lists
\* exactly the supported ids without a warehouse match.
C1_InvalidIdsEndRunWithoutWrites ==
    /\ [](pc \notin {"idle", "verify"} /\ UnmatchedIds # {}
            => /\ pc = "done"
               /\ ops = <<>>
               /\ Range(invalid) = UnmatchedIds
               /\ status = <<Entry("start", run_start, <<>>, <<>>),
                             Entry("invalid", 0, invalid, <<>>),
                             Entry("end", 0, <<>>, <<>>)>>)
    /\ [][pc = "verify" /\ UnmatchedIds # {}
            => pc' = "done" /\ UNCHANGED store_vars]_vars

C1_Witness ==
    /\ pc = "done"
    /\ invalid # <<>>
    /\ Len(invalid) < Cardinality(DOMAIN start.course)

\* C2: a course's data_last_updated changes only in the commit of a run that did
\* not catch an exception of update_resource_access / update_canvas_resource, only
\* for a locked course and only to the run's start time; such a commit (of a run
\* with a non-empty locked set) sets it for every locked course.
C2_WatermarkCommit ==
    [][/\ \A c \in DOMAIN course \cap DOMAIN course' :
            course'[c].data_last_updated # course[c].data_last_updated
               => /\ pc = "commit" /\ exception_in_run = "false"
                  /\ c \in Range(locked)
                  /\ course'[c].data_last_updated = run_start
       /\ pc = "commit" /\ exception_in_run = "false" /\ Len(locked) > 0
            => /\ pc' = "done"
               /\ \A c \in DOMAIN course' :
                    IF c \in Range(locked)
                    THEN course'[c].data_last_updated = run_start
                    ELSE course'[c] = course[c]
       /\ pc = "commit" /\ exception_in_run = "true"
            => pc' = "done" /\ course' = course]_vars

C2_Witness ==
    /\ pc = "done"
    /\ exception_in_run = "false"
    /\ Len(stages) > 0 /\ stages[Len(stages)] = "commit"
    /\ \E c \in DOMAIN course : c \notin Range(locked)
    /\ \E c \in DOMAIN course : c \in Range(locked)
                                  /\ course[c].data_last_updated = run_start

\* C3: a run whose validation succeeds with no supported course skips the
\* course-scoped stages, passes the watermark commit and ends with a summary that
\* holds the end timestamp.
C3_EmptyCourseSetReachesEnd ==
    (invalid = <<>> /\ Len(locked) = 0 /\ "commit" \in Range(stages))
        => /\ pc = "done"
           /\ status[Len(status)].k = "end"
           /\ Range(stages) \subseteq {"verify", "term", "metadata", "commit"}

\* The rows one util_function call fetches for table t and course c, as written.
FetchedRows(t, c) ==
    LET df == start.wh_tables[t][c]
    IN  [i \in 1..Len(df) |->
            IF t = "assignment_weight_consideration"
            THEN [df[i] EXCEPT !.course_id = c] ELSE df[i]]

\* C4: two runs in sequence over the same warehouse tables and the same locked
\* course set leave every fully replaced table as the first run left it.
C4_FullRefreshIdempotent ==
    (TablesSynced /\ prev.synced /\ prev.wh_tables = start.wh_tables
        /\ prev.locked = locked)
        => \A t \in FullTables : tables[t] = prev.tables[t]

C4_Witness ==
    /\ TablesSynced /\ prev.synced
    /\ prev.wh_tables = start.wh_tables /\ prev.locked = locked
    /\ Len(locked) = 2
    /\ Len(tables["user"]) > 2
    /\ pc = "done"

\* C5: after a run has been through every table sync without error, each row of
\* a fully replaced table is a row the warehouse held during the run for a course of the
\* run's locked set.
C5_NoStaleRows ==
    TablesSynced
        => \A t \in FullTables : \A k \in 1..Len(tables[t]) :
              \E c \in Range(locked) : tables[t][k] \in Range(FetchedRows(t, c))

C5_Witness ==
    /\ TablesSynced /\ prev.synced
    /\ prev.wh_tables # start.wh_tables
    /\ Range(prev.locked) \ Range(locked) # {}
    /\ \A t \in FullTables :
          /\ tables[t] # <<>>
          /\ \E k \in 1..Len(prev.tables[t]) : prev.tables[t][k] \notin Range(tables[t])

\* The rows of a frame that repeat the access key of an earlier row.
LaterDuplicates(df) ==
    {i \in 1..Len(df) : \E j \in 1..(i-1) : access_key(df[j]) = access_key(df[i])}

\* The rows course c has in table t, in table order.
RowsOf(t, c) == SelectSeq(tables[t], LAMBDA r : r.course_id = c)

\* The position at which a row first occurs in a frame.
FirstIndex(df, r) == CHOOSE i \in 1..Len(df) : df[i] = r /\ \A j \in 1..(i-1) : df[j] # r

C7_NoDuplicateAccessEvents ==
    \A i, j \in 1..Len(resource_access) :
        i # j => <<resource_access[i].resource_id, resource_access[i].user_id,
                   resource_access[i].access_time>>
                 # <<resource_access[j].resource_id, resource_access[j].user_id,
                     resource_access[j].access_time>>

\* The first row the warehouse course query returns for a course.
WarehouseCourse(c) == wh_courses[c][1]

\* C8: no step changes a Course row's date_start or date_end that is not null.
C8_DatesNeverOverwritten ==
    [][\A c \in DOMAIN course \cap DOMAIN course' :
          /\ course[c].date_start # NoneDate
                => course'[c].date_start = course[c].date_start
          /\ course[c].date_end # NoneDate
                => course'[c].date_end = course[c].date_end]_vars

C8_Witness ==
    /\ pc = "user"
    /\ \E c \in Range(locked) \cap DOMAIN course :
          /\ WarehouseCourse(c).start_at # NoneDate
          /\ course[c].date_start \notin {NoneDate, replace_tzinfo_utc(WarehouseCourse(c).start_at)}
          /\ WarehouseCourse(c).conclude_at # NoneDate
          /\ course[c].date_end \notin {NoneDate, replace_tzinfo_utc(WarehouseCourse(c).conclude_at)}

\* The updated-field list update_course reports for course c in the summary s.
UpdatedFields(s, c) ==
    IF \E i \in 1..Len(s) : s[i].k = "course" /\ s[i].n = c
    THEN Range(s[CHOOSE i \in 1..Len(s) : s[i].k = "course" /\ s[i].n = c].fields)
    ELSE {}

\* C9: when update_course returns, every locked course has the warehouse's name
\* and term id, and the summary names 'name' / 'term' as updated for exactly the
\* courses whose previous value differed.
C9_NameAndTermFollowWarehouse ==
    [][pc = "course" /\ pc' = "user"
          => \A c \in Range(locked) \cap DOMAIN course :
                LET reported == UpdatedFields(SubSeq(status', Len(status) + 1, Len(status')), c)
                IN  /\ course'[c].name = WarehouseCourse(c).name
                    /\ course'[c].term = WarehouseCourse(c).enrollment_term_id
                    /\ "name" \in reported <=> course[c].name # WarehouseCourse(c).name
                    /\ "term" \in reported
                          <=> course[c].term # WarehouseCourse(c).enrollment_term_id]_vars

C9_Witness ==
    /\ pc = "user"
    /\ \E c, d \in Range(locked) \cap DOMAIN course :
          /\ start.course[c].name # course[c].name
          /\ start.course[c].term \notin {NULL, course[c].term}
          /\ {"name", "term"} \subseteq UpdatedFields(status, c)
          /\ {"name", "term"} \cap UpdatedFields(status, d) = {}

\* C10: no step removes a row of academic_terms or changes one: every row stays
\* as it is, whatever the warehouse holds for its id.
C10_TermsOnlyGrow == [][terms \subseteq terms']_vars

C10_Witness ==
    /\ "term" \in Range(stages)
    /\ [id |-> 1, name |-> 9] \in terms
    /\ [id |-> 2, name |-> 2] \in terms
    /\ \E i \in 1..Len(wh_terms) : wh_terms[i] = [id |-> 1, name |-> 1]

\* The warehouse term rows whose id academic_terms does not hold.
AbsentTerms == {wh_terms[i] : i \in {j \in 1..Len(wh_terms) :
                                       \A t \in terms : t.id # wh_terms[j].id}}

\* C11: an update_term that returns has inserted one row for each warehouse term
\* whose id was absent and no other row, so every warehouse id is present
\* afterwards; when no id is absent it issues no write and does not raise.
C11_TermsInsertedOncePerNewId ==
    [][pc = "term" /\ stages' # stages
          => /\ AbsentTerms = {}
                   => pc' # "raised" /\ terms' = terms /\ ops' = ops
             /\ pc' # "raised"
                   => /\ terms' = terms \cup AbsentTerms
                      /\ Cardinality(terms') = Cardinality(terms)
                            + Cardinality({r.id : r \in AbsentTerms})
                      /\ \A i \in 1..Len(wh_terms) :
                            Cardinality({t \in terms' : t.id = wh_terms[i].id}) = 1]_vars

C11_Witness ==
    /\ runs = 2 /\ pc = "course" /\ ops = <<>>
    /\ [id |-> 1, name |-> 9] \in terms
    /\ [id |-> 2, name |-> 2] \in terms

\* C12: resource never holds two rows with one resource_id; a batch that upserts
\* a resource_id leaves one row for it, holding the name the batch upserted,
\* whatever row the table held for it before.
C12_ResourceUpsertKeepsOneRow ==
    /\ [](\A r, q \in resource : r.resource_id = q.resource_id => r = q)
    /\ [][pc = "ra_batch" /\ ra'.i = ra.i + 1 /\ ra'.df # <<>>
            => \A k \in 1..Len(ra'.df) :
                  (\A j \in 1..(k-1) : ra'.df[j].resource_id # ra'.df[k].resource_id)
                     => {r \in resource' : r.resource_id = ra'.df[k].resource_id}
                          = {[resource_id |-> ra'.df[k].resource_id,
                              resource_type |-> ra'.df[k].resource_type,
                              name |-> ra'.df[k].name]}]_vars

C12_Witness ==
    /\ runs = 2 /\ pc = "canvas"
    /\ prev.synced
    /\ \E k \in 1..Len(ra.df) : ra.df[k].resource_id = 1 /\ ra.df[k].name = 2
    /\ [resource_id |-> 1, resource_type |-> 1, name |-> 2] \in resource
    /\ Cardinality(resource) = 2

\* The rows of a fetched frame that carry the sentinel user id and a login name
\* no row of the user table has.
Unresolvable(df) ==
    {i \in 1..Len(df) :
        /\ df[i].user_id = IntUser(SENTINEL)
        /\ df[i].user_login_name # NULL
        /\ \A k \in 1..Len(tables["user"]) :
              tables["user"][k].val # df[i].user_login_name}

\* C13: a batch is never failed by a sentinel row whose login name matches no
\* user: the stage raises on identity resolution only when no row of the batch
\* has a login name; when the batch goes through, the run is not tainted by it,
\* no appended row stems from such a row (none carries the sentinel or a missing
\* user id, each matches a fetched row that is not such a row), and every fetched
\* row with a user id of its own is appended.
C13_UnresolvableRowsDropped ==
    [][pc = "ra_batch"
          => /\ (pc' = "metadata" /\ status'[Len(status')].fields = <<"user query">>)
                   => \A i \in 1..Len(ra'.fetched) : ra'.fetched[i].user_login_name = NULL
             /\ (ra'.i = ra.i + 1 /\ ra'.fetched # <<>>)
                   => LET f == ra'.fetched
                          new == SubSeq(resource_access', Len(resource_access) + 1,
                                        Len(resource_access'))
                      IN  /\ exception_in_run' = exception_in_run
                          /\ \A k \in 1..Len(new) :
                                /\ new[k].user_id \notin {SENTINEL, NULL}
                                /\ \E i \in (1..Len(f)) \ Unresolvable(f) :
                                      /\ f[i].resource_id = new[k].resource_id
                                      /\ f[i].access_time = new[k].access_time
                          /\ \A i \in 1..Len(f) :
                                f[i].user_id # IntUser(SENTINEL)
                                   => \E k \in 1..Len(new) :
                                         /\ new[k].resource_id = f[i].resource_id
                                         /\ new[k].user_id = f[i].user_id.v
                                         /\ new[k].access_time = f[i].access_time]_vars

C13_Witness ==
    /\ pc = "done" /\ exception_in_run = "false" /\ runs = 1
    /\ Len(ra.fetched) = 3
    /\ Unresolvable(ra.fetched) # {}
    /\ Len(resource_access) = 2
    /\ \A k \in 1..Len(resource_access) : resource_access[k].resource_id # 3

\* C14: an exception of update_resource_access or update_canvas_resource never
\* ends the run: it is recorded in the summary and the run goes on to metadata
\* sync; a tainted run leaves the fully replaced tables as the table syncs wrote
\* them, runs metadata sync when the warehouse is a Unizin one, and ends with the
\* summary unless metadata sync itself raises.
C14_ResourceFailureContained ==
    /\ [](pc = "raised" => stages[Len(stages)] \notin {"resource_access", "canvas"})
    /\ [](exception_in_run = "true"
             => /\ pc \in {"metadata", "commit", "done", "raised"}
                /\ TablesSynced
                /\ \E i \in 1..Len(status) : status[i].k = "exception"
                /\ (pc = "raised" => stages[Len(stages)] = "metadata")
                /\ ((pc \in {"commit", "done"} /\ settings.is_unizin)
                      => "metadata" \in Range(stages))
                /\ (pc = "done" => status[Len(status)].k = "end"))
    /\ [][/\ (exception_in_run = "false" /\ exception_in_run' = "true")
               => (/\ pc \in {"ra_batch", "canvas"} /\ pc' = "metadata"
                   /\ Len(status') = Len(status) + 1
                   /\ SubSeq(status', 1, Len(status)) = status
                   /\ status'[Len(status')].k = "exception"
                   /\ tables' = tables)
          /\ (exception_in_run = "true" /\ exception_in_run' = "true")
               => (\A t \in FullTables : tables'[t] = tables[t])]_vars

C14_Witness ==
    /\ pc = "done" /\ exception_in_run = "true"
    /\ settings.is_unizin /\ tables["unizin_metadata"] # <<>>
    /\ tables["user"] # <<>>
    /\ status[Len(status) - 3].fields = <<"canvas">>

\* C15: a table sync that did not complete its inserts for every locked course,
\* a term sync that did not insert its new rows and a metadata sync that did not
\* insert abort the run; an aborted run issues no watermark update and executes
\* no further stage: the next step of the job is the start of another run.
C15_InsertFailureAbortsRun ==
    /\ [](pc = "raised" => <<"watermark", "course">> \notin Range(ops))
    /\ [][/\ (pc \in TableStages /\ stages' # stages
                  /\ Len(ops') < Len(ops) + 1 + Len(locked))
               => (pc' = "raised" /\ course' = course)
          /\ (pc = "term" /\ stages' # stages /\ AbsentTerms # {} /\ terms' = terms)
               => (pc' = "raised" /\ course' = course /\ ops' = ops)
          /\ (pc = "metadata" /\ stages' # stages /\ Len(ops') < Len(ops) + 2)
               => (pc' = "raised" /\ course' = course)
          /\ pc = "raised"
               => \/ pc' = "verify" /\ runs' = runs + 1 /\ stages' = <<>>
                  \/ pc' = "raised" /\ stages' = stages /\ ops' = ops
                       /\ tables' = tables /\ terms' = terms]_vars

C15_Witness ==
    /\ pc = "raised" /\ stages[Len(stages)] = "submission"
    /\ Len(locked) = 2
    /\ Len(tables["submission"]) = 1
    /\ tables["assignment"] # <<>>
    /\ tables["assignment_weight_consideration"] = <<>>

\* C16: however a run ends, its summary begins with the start line, ends with the
\* end line and, when there was a failure, holds an entry that identifies it.
C16_EveryEndingHasSummary ==
    pc \in {"done", "raised"}
        => /\ status # <<>>
           /\ status[1].k = "start"
           /\ status[Len(status)].k = "end"
           /\ invalid # <<>> => \E i \in 1..Len(status) : status[i].k = "invalid"
           /\ (exception_in_run = "true" \/ pc = "raised")
                 => \E i \in 1..Len(status) : status[i].k = "exception"

\* C17: the locked id list is assigned at validation and nowhere else in a run;
\* whatever Course rows are added or deleted meanwhile, a table sync that
\* completes writes the rows of exactly the locked courses, a batch appends
\* events of locked courses only, and no step of the job changes the Course row
\* of a course outside the locked list.
C17_LockedSetFixedForRun ==
    [][/\ (pc # "verify" /\ pc' # "verify") => locked' = locked
       /\ (pc \in TableStages /\ pc' \notin {pc, "raised"})
            => {tables'[StageTable[pc]][k].course_id :
                   k \in 1..Len(tables'[StageTable[pc]])} = Range(locked)
       /\ pc = "ra_batch"
            => \A k \in (Len(resource_access) + 1)..Len(resource_access') :
                  resource_access'[k].course_id \in Range(locked)
       /\ pc \notin {"idle", "done", "raised", "term"}
            => \A c \in (DOMAIN course \cap DOMAIN course') \ Range(locked) :
                  course'[c] = course[c]
       /\ (pc = "term" /\ stages' # stages) => course' = course]_vars

C17_Witness ==
    /\ pc = "done" /\ exception_in_run = "false" /\ Len(locked) = 1
    /\ \E c \in DOMAIN course \ DOMAIN start.course :
          /\ course[c] = FreshCourse
          /\ \A t \in FullTables : RowsOf(t, c) = <<>>
          /\ \A k \in 1..Len(resource_access) : resource_access[k].course_id # c
    /\ \A c \in Range(locked) :
          /\ course[c].data_last_updated = run_start
          /\ \A t \in FullTables : RowsOf(t, c) # <<>>

StageOrder == <<"verify", "term", "course", "user", "groups", "assignment",
                "submission", "weight", "resource_access", "canvas", "metadata",
                "commit">>

StagePosition(stage) == CHOOSE i \in 1..Len(StageOrder) : StageOrder[i] = stage

\* C19: the stages a run has entered are in the order validation, term, course,
\* user, groups, assignment, submission, weight, resource access, canvas
\* resource, metadata, commit, each at most once; from course merge to canvas
\* resource a stage directly follows its predecessor of that order, term sync
\* directly follows validation, and a run with an invalid id enters no stage
\* after validation.
C19_StagesInOrder ==
    /\ \A i \in 1..Len(stages) : stages[i] \in Range(StageOrder)
    /\ \A i, j \in 1..Len(stages) :
          i < j => StagePosition(stages[i]) < StagePosition(stages[j])
    /\ \A i \in 1..Len(stages) :
          (StagePosition(stages[i]) \in 2..10)
             => (i > 1 /\ StagePosition(stages[i-1]) = StagePosition(stages[i]) - 1)
    /\ \A i \in 1..Len(stages) : stages[i] \in {"metadata", "commit"} => i > 2
    /\ invalid # <<>> => stages = <<"verify">>

C19_Witness == pc = "done" /\ stages = StageOrder /\ runs = 2

\* C20: the commit of a tainted run leaves the Course rows as they are, so the
\* earliest watermark of the locked courses is still the cutoff the run used;
\* the next run over the same locked list computes that cutoff again and, once
\* its batches are through, has fetched every event the tainted run fetched.
C20_TaintedRunIsRetried ==
    /\ [][(pc = "commit" /\ exception_in_run = "true")
            => (course' = course /\ get_data_earliest_date(locked)' = ra.cutoff)]_vars
    /\ []((prev.synced /\ prev.tainted /\ prev.locked = locked
              /\ "resource_access" \in Range(stages))
            => /\ ra.cutoff = prev.cutoff
               /\ pc = "canvas" => prev.pulled \subseteq ra.pulled)

C20_Witness ==
    /\ runs = 2 /\ pc = "canvas"
    /\ prev.synced /\ prev.tainted /\ prev.locked = locked
    /\ ra.cutoff # NULL
    /\ prev.pulled # {}
    /\ ra.pulled \ prev.pulled # {}

\* The rows the batches of a run without failure append to resource_access, given
\* the cutoff: per batch of the locked ids the fetched rows after identity
\* resolution and deduplication.
CleanAppend(cutoff) ==
    LET batches == split_list(locked, settings.cron_bq_in_limit)
    IN  Concat([b \in 1..Len(batches) |->
            resource_access_rows(drop_duplicate_events(resolve_identities(
                resource_access_query(batches[b], cutoff))))])

\* C21: when a run that follows an aborted or tainted run has committed, every
\* fully replaced table holds the rows of the locked courses and resource_access
\* holds what one run without failure makes of the table the failed run found:
\* its rows up to the cutoff, then the rows of the batches.
C21_CleanRunRecovers ==
    (RunCommitted /\ start.retry /\ "resource_access" \in Range(stages))
        => /\ \A t \in FullTables :
                 tables[t] = Concat([i \in 1..Len(locked) |-> util_function(locked[i], t)])
           /\ resource_access
                 = delete_records_after(start.origin, ra.cutoff) \o CleanAppend(ra.cutoff)

\* C22: the first step of update_resource_access removes from resource_access
\* the rows whose access_time is after the cutoff it read and no other row, leaving the
\* others in place and in order; without a cutoff it removes nothing; no batch
\* has been queried by then.
C22_DeleteAfterCutoff ==
    [][pc = "resource_access"
          => LET cutoff == ra'.cutoff
             IN  /\ cutoff = NULL => resource_access' = resource_access
                 /\ cutoff # NULL
                       => resource_access'
                            = SelectSeq(resource_access, LAMBDA r : r.access_time <= cutoff)
                 /\ pc' = "ra_batch" /\ ra'.i = 1 /\ ra'.pulled = {}
                 /\ resource' = resource]_vars

C22_Witness ==
    /\ pc = "ra_batch" /\ ra.i = 1 /\ runs = 1
    /\ ra.cutoff = -3
    /\ resource_access = <<StoredEvent(1, -4), StoredEvent(1, -3)>>

\* C23: while the batches of a run are queried, the query of every configured
\* kind carries a cutoff condition when the run has a cutoff (the kind's own
\* fragment if it has one, else the generic condition) and none when it has no
\* cutoff, whichever backend is configured.
C23_EveryKindCarriesCutoff ==
    pc = "ra_batch"
        => \A k \in 1..Len(settings.resource_access_config) :
              LET query_obj == settings.resource_access_config[k]
              IN  cutoff_condition(query_obj, ra.cutoff)
                    = IF ra.cutoff = NULL THEN "none"
                      ELSE IF query_obj.has_condition THEN "own"
                      ELSE "generic"

\* C24: the batches split_list returns for a size of at least 1 concatenate to
\* the list; each holds at least one and at most size elements, and each but the
\* last holds size elements; so every id of a list without repetition, as the
\* locked list is, lies in exactly one batch of update_resource_access.
C24_SplitListPartitions ==
    pc \in {"split", "ra_batch"}
        => LET size == settings.cron_bq_in_limit
               b == ra.batches
           IN  /\ Concat(b) = locked
               /\ \A k \in 1..Len(b) :
                     /\ Len(b[k]) >= 1 /\ Len(b[k]) <= size
                     /\ k < Len(b) => Len(b[k]) = size
               /\ Len(locked) = Cardinality(Range(locked))
                     => \A id \in Range(locked) :
                           Cardinality({k \in 1..Len(b) : id \in Range(b[k])}) = 1

C24_Witness ==
    /\ pc = "split" /\ settings.cron_bq_in_limit = 3
    /\ Len(locked) = 4 /\ Cardinality(Range(locked)) = 3
    /\ Len(ra.batches) = 2 /\ Len(ra.batches[2]) = 1

\* The failure the run caught, as the summary records it ("none" if it caught none).
CaughtFailure ==
    IF \E i \in 1..Len(status) : status[i].k = "exception"
    THEN status[CHOOSE i \in 1..Len(status) : status[i].k = "exception"].fields[1]
    ELSE "none"

\* The ids of the batches up to batch k.
BatchIdsUpTo(k) == Range(Concat(SubSeq(ra.batches, 1, k)))

\* C25: a batch whose upsert or append fails ends update_resource_access and
\* taints the run: the step leaves resource_access as the earlier batches left it
\* (and resource too when it is the upsert that fails), the loop does not advance,
\* and the run goes to metadata sync; for the rest of the run no event of a later
\* batch has been fetched, update_canvas_resource is not entered and the two
\* tables keep their rows.
C25_BatchWriteFailureEndsStage ==
    /\ [][(pc = "ra_batch" /\ pc' # "ra_batch"
              /\ CaughtFailure' \in {"upsert", "append"})
            => (/\ pc' = "metadata" /\ exception_in_run' = "true"
                /\ ra'.i = ra.i
                /\ resource_access' = resource_access
                /\ CaughtFailure' = "upsert" => resource' = resource)]_vars
    /\ []((exception_in_run = "true" /\ CaughtFailure \in {"upsert", "append"})
            => (/\ "canvas" \notin Range(stages)
                /\ pc \in {"metadata", "commit", "done", "raised"}
                /\ \A e \in ra.pulled : e.course_id \in BatchIdsUpTo(ra.i)))
    /\ [][(exception_in_run = "true" /\ exception_in_run' = "true")
            => (resource_access' = resource_access /\ resource' = resource)]_vars

C25_Witness ==
    /\ pc = "done" /\ exception_in_run = "true" /\ runs = 1
    /\ CaughtFailure = "append"
    /\ Len(ra.batches) = 2 /\ ra.i = 2
    /\ Len(resource_access) = 1
    /\ \A k \in 1..Len(resource_access) : resource_access[k].course_id = 1
    /\ \E r \in resource : r.resource_id = 2

\* C26: a batch whose query returns no row writes nothing to resource or
\* resource_access, issues no write at all, does not taint the run, and the loop
\* goes on: to the next batch, or past the stage after the last one.
C26_EmptyBatchSkipped ==
    [][(/\ pc = "ra_batch"
        /\ resource_access_query(ra.batches[ra.i], ra.cutoff) = <<>>
        /\ ~(pc' = "metadata" /\ CaughtFailure' = "query"))
          => (/\ resource' = resource /\ resource_access' = resource_access
              /\ ops' = ops
              /\ exception_in_run' = exception_in_run
              /\ ra'.i = ra.i + 1
              /\ pc' = IF ra.i < Len(ra.batches) THEN "ra_batch" ELSE "canvas")]_vars

C26_Witness ==
    /\ pc = "done" /\ runs = 1 /\ exception_in_run = "false"
    /\ Len(ra.batches) = 2
    /\ resource_access_query(ra.batches[1], ra.cutoff) = <<>>
    /\ Len(resource_access) = 1 /\ resource_access[1].course_id = 2

\* C27: the writes of a batch are the upsert of resource and then the append to
\* resource_access, or the upsert alone, or none; every row a batch appends has
\* its resource_id in resource once the batch has written, with the type and name
\* of a row of the same deduplicated frame; a batch whose upsert fails appends
\* nothing.
C27_UpsertBeforeAppend ==
    [][pc = "ra_batch"
          => LET new_ops == SubSeq(ops', Len(ops) + 1, Len(ops'))
                 new_rows == SubSeq(resource_access', Len(resource_access) + 1,
                                    Len(resource_access'))
             IN  /\ new_ops \in {<<>>, <<<<"upsert", "resource">>>>,
                                  <<<<"upsert", "resource">>,
                                    <<"insert", "resource_access">>>>}
                 /\ SubSeq(resource_access', 1, Len(resource_access)) = resource_access
                 /\ new_rows # <<>> => Len(new_ops) = 2
                 /\ \A k \in 1..Len(new_rows) :
                       \E r \in resource' :
                          /\ r.resource_id = new_rows[k].resource_id
                          /\ \E j \in 1..Len(ra'.df) :
                                /\ ra'.df[j].resource_id = r.resource_id
                                /\ ra'.df[j].resource_type = r.resource_type
                                /\ ra'.df[j].name = r.name
                 /\ (pc' = "metadata" /\ CaughtFailure' = "upsert")
                       => (new_rows = <<>> /\ new_ops = <<>>)]_vars

C27_Witness ==
    /\ pc = "canvas" /\ runs = 1
    /\ Len(ra.df) = 2 /\ ra.df[1].resource_id # ra.df[2].resource_id
    /\ Len(resource_access) = 2
    /\ \A k \in 1..2 : \E r \in resource : r.resource_id = resource_access[k].resource_id
    /\ ops[Len(ops)] = <<"insert", "resource_access">>
    /\ ops[Len(ops) - 1] = <<"upsert", "resource">>

\* C28: with the resource views disabled a run enters neither
\* update_resource_access nor update_canvas_resource and is never tainted, no
\* step changes resource or resource_access, and the commit of a run with locked
\* courses sets the watermark of each of them to the run's start time.
C28_DisabledFeatureLeavesResources ==
    /\ [](settings.views_disabled
            => /\ "resource_access" \notin Range(stages)
               /\ "canvas" \notin Range(stages)
               /\ pc \notin {"resource_access", "ra_batch", "canvas"}
               /\ exception_in_run # "true")
    /\ [][settings.views_disabled
            => /\ resource' = resource /\ resource_access' = resource_access
               /\ (pc = "weight" /\ pc' # "raised") => pc' = "metadata"
               /\ (pc = "commit" /\ Len(locked) > 0)
                     => /\ pc' = "done"
                        /\ \A c \in Range(locked) \cap DOMAIN course' :
                              course'[c].data_last_updated = run_start]_vars

C28_Witness ==
    /\ settings.views_disabled
    /\ pc = "done" /\ runs = 1 /\ stages[Len(stages)] = "commit"
    /\ Len(locked) = 2
    /\ \A c \in Range(locked) : course[c].data_last_updated = run_start
    /\ resource = {[resource_id |-> 1, resource_type |-> 1, name |-> 1]}
    /\ resource_access = <<StoredEvent(1, -4), StoredEvent(1, -3), StoredEvent(1, -2)>>

\* C29: soft_update_datetime_field sets the field exactly when it is unset and
\* the warehouse has a value; it then returns the field's name and the field
\* holds the warehouse value labelled UTC; otherwise it returns the empty list
\* and the instance is as before.  In update_course the same holds for
\* date_start and date_end of every locked course.
C29_SoftUpdateOnlyFillsNull ==
    [][/\ pc = "soft_update"
            => LET current == course[1].date_start
                   w == course_data[1].start_at
                   changed == course'[1].date_start # current
                   returned == status'[Len(status')].fields
               IN  /\ changed <=> (current = NoneDate /\ w # NoneDate)
                   /\ changed => (/\ returned = <<"date_start">>
                                  /\ course'[1].date_start = [t |-> w.t, tz |-> "UTC"]
                                  /\ course' = [course EXCEPT
                                                  ![1].date_start = course'[1].date_start])
                   /\ ~changed => (returned = <<>> /\ course' = course)
       /\ (pc = "course" /\ pc' = "user")
            => \A c \in Range(locked) \cap DOMAIN course :
                  LET reported == UpdatedFields(SubSeq(status', Len(status) + 1,
                                                       Len(status')), c)
                  IN  /\ "date_start" \in reported
                         <=> (course[c].date_start = NoneDate
                                /\ WarehouseCourse(c).start_at # NoneDate)
                      /\ "date_start" \in reported
                         <=> course'[c].date_start # course[c].date_start
                      /\ "date_end" \in reported
                         <=> (course[c].date_end = NoneDate
                                /\ WarehouseCourse(c).conclude_at # NoneDate)
                      /\ "date_end" \in reported
                         <=> course'[c].date_end # course[c].date_end]_vars

C29_Witness ==
    /\ pc = "soft_updated"
    /\ start.course[1].date_start = NoneDate
    /\ course_data[1].start_at = [t |-> 3, tz |-> "naive"]
    /\ course[1].date_start = [t |-> 3, tz |-> "UTC"]
    /\ status[1].fields = <<"date_start">>

\* Whether the warehouse record of course c differs from its Course row in a
\* field update_course maintains: the name, the term, or a date the row lacks.
NeedsUpdate(c) ==
    \/ course[c].name # WarehouseCourse(c).name
    \/ course[c].term # WarehouseCourse(c).enrollment_term_id
    \/ course[c].date_start = NoneDate /\ WarehouseCourse(c).start_at # NoneDate
    \/ course[c].date_end = NoneDate /\ WarehouseCourse(c).conclude_at # NoneDate

\* C30: an update_course that returns has saved exactly the locked Course rows
\* of which a field changed, one save and one summary line each, and left the
\* others as they were; when the run before went through update_course over the
\* same warehouse records, it saves nothing and reports no updated field.
C30_SaveOnlyWhenChanged ==
    [][(pc = "course" /\ pc' = "user")
          => LET lines == SubSeq(status', Len(status) + 1, Len(status'))
                 saved == {c \in DOMAIN course :
                             \E i \in 1..Len(lines) : lines[i].k = "course" /\ lines[i].n = c}
                 ids == Range(locked) \cap DOMAIN course
             IN  /\ saved = {c \in ids : NeedsUpdate(c)}
                 /\ Len(ops') = Len(ops) + Cardinality(saved)
                 /\ \A i \in (Len(ops) + 1)..Len(ops') : ops'[i] = <<"update", "course">>
                 /\ Len(lines) = 1 + Cardinality(saved)
                 /\ \A c \in DOMAIN course :
                       IF c \in saved
                       THEN course'[c] # course[c] /\ UpdatedFields(lines, c) # {}
                       ELSE course'[c] = course[c]
                 /\ prev.synced
                       => (saved = {} /\ course' = course /\ ops' = ops)]_vars

C30_Witness ==
    /\ runs = 1 /\ pc = "user"
    /\ Len(locked) = 2
    /\ ops = <<<<"update", "course">>>>
    /\ \E c, d \in Range(locked) :
          /\ course[c] # start.course[c] /\ UpdatedFields(status, c) # {}
          /\ course[d] = start.course[d] /\ UpdatedFields(status, d) = {}

\* C31: a batch fetched without a user_login_name column is never failed by
\* identity resolution: unless the query, the upsert or the append raises, the
\* loop goes on untainted, every fetched row reaches deduplication with the user
\* id it was fetched with, and the deduplicated rows are upserted and appended.
C31_MissingLoginColumnTolerated ==
    [][(pc = "ra_batch" /\ ~settings.has_user_login_name)
          => LET fetched == resource_access_query(ra.batches[ra.i], ra.cutoff)
             IN  /\ CaughtFailure' # "user query"
                 /\ (pc' # "metadata" /\ fetched # <<>>)
                       => /\ ra'.i = ra.i + 1
                          /\ exception_in_run' = exception_in_run
                          /\ ra'.before = [i \in 1..Len(fetched) |-> drop_login(fetched[i])]
                          /\ ra'.df = drop_duplicate_events(ra'.before)
                          /\ resource_access'
                                = resource_access \o resource_access_rows(ra'.df)
                          /\ \A i \in 1..Len(ra'.df) :
                                \E r \in resource' :
                                   r.resource_id = ra'.df[i].resource_id]_vars

C31_Witness ==
    /\ ~settings.has_user_login_name
    /\ pc = "done" /\ runs = 1 /\ exception_in_run = "false"
    /\ Len(ra.batches) = 1
    /\ Len(ra.fetched) = 2 /\ ra.fetched[1].user_login_name = NULL
    /\ Len(resource_access) = 2

\* The rows of a fetched frame that carry the sentinel user id.
SentinelRows(df) == {i \in 1..Len(df) : df[i].user_id = IntUser(SENTINEL)}

\* C32: a batch without a sentinel row is never failed by the login-name lookup
\* and reaches deduplication as fetched, less the login-name column; in a batch
\* with sentinel rows that goes through, every fetched row with a user id of its
\* own reaches deduplication with that user id, whether or not the user table
\* holds its login name.
C32_LookupTouchesSentinelRowsOnly ==
    [][(pc = "ra_batch" /\ settings.has_user_login_name)
          => LET fetched == resource_access_query(ra.batches[ra.i], ra.cutoff)
             IN  /\ (SentinelRows(fetched) = {}) => CaughtFailure' # "user query"
                 /\ (ra'.i = ra.i + 1 /\ fetched # <<>>)
                       => /\ (SentinelRows(fetched) = {})
                                => ra'.before
                                     = [i \in 1..Len(fetched) |-> drop_login(fetched[i])]
                          /\ \A i \in (1..Len(fetched)) \ SentinelRows(fetched) :
                                /\ \E k \in 1..Len(ra'.before) :
                                      ra'.before[k] = drop_login(fetched[i])
                                /\ \E k \in (Len(resource_access) + 1)..Len(resource_access') :
                                      /\ resource_access'[k].resource_id
                                            = fetched[i].resource_id
                                      /\ resource_access'[k].user_id = fetched[i].user_id.v
                                      /\ resource_access'[k].access_time
                                            = fetched[i].access_time]_vars

C32_Witness ==
    /\ pc = "done" /\ runs = 1 /\ exception_in_run = "false"
    /\ Len(ra.batches) = 1
    /\ SentinelRows(ra.fetched) # {}
    /\ \E k \in 1..Len(resource_access) :
          resource_access[k].resource_id = 5 /\ resource_access[k].user_id = 7
    /\ \E k \in 1..Len(resource_access) :
          resource_access[k].resource_id = 6 /\ resource_access[k].user_id = 7
    /\ Len(resource_access) = 4

\* The fields of a Course row update_course maintains.
MergedFields(row) == <<row.name, row.term, row.date_start, row.date_end>>

\* C33: a step of the job changes Course rows only in update_course, which
\* leaves every watermark alone, and in the watermark commit, which changes
\* nothing else; it adds and removes no Course row and leaves the rows of
\* courses outside the locked list as they are.
C33_CourseRowsOwnedByTwoStages ==
    [][edits' = edits
          => /\ DOMAIN course' = DOMAIN course
             /\ course' # course => pc \in {"course", "commit"}
             /\ \A c \in DOMAIN course :
                   /\ c \notin Range(locked) => course'[c] = course[c]
                   /\ pc = "course"
                         => course'[c].data_last_updated = course[c].data_last_updated
                   /\ pc = "commit"
                         => MergedFields(course'[c]) = MergedFields(course[c])]_vars

C33_Witness ==
    /\ pc = "done" /\ runs = 2 /\ RunCommitted
    /\ \E c \in DOMAIN course \ Range(locked) : course[c] = FreshCourse
    /\ \E c \in Range(locked) :
          /\ MergedFields(course[c]) # MergedFields(FreshCourse)
          /\ course[c].data_last_updated = run_start
    /\ Cardinality({ops[i] : i \in 1..Len(ops)} \cap {<<"watermark", "course">>}) = 1
    /\ tables["user"] # <<>> /\ resource_access # <<>>

\* The row-count lines of batches in a summary: those that name no table.
BatchLines(s) == SelectSeq(s, LAMBDA e : e.k = "rows" /\ e.fields = <<>>)

\* C34: once update_resource_access has returned, the run summary holds the
\* row-count line of every batch that appended rows, in batch order.
C34_SummaryHasBatchLines ==
    (pc = "canvas" \/ "canvas" \in Range(stages))
        => BatchLines(status) = ra.return_string

\* The locked courses whose warehouse term differs from the term of their Course
\* row and has no academic_terms row.
MissingTermCourses ==
    {c \in Range(locked) \cap DOMAIN course :
        /\ course[c].term # WarehouseCourse(c).enrollment_term_id
        /\ \A t \in terms : t.id # WarehouseCourse(c).enrollment_term_id}

\* C35: every term a Course row refers to has an academic_terms row, in every
\* state; an update_course that meets a locked course whose warehouse term has
\* no row raises: the run is over before any table sync, its exception is not
\* caught, and it neither changes a watermark nor writes a table.
C35_TermReferenceExists ==
    /\ [](\A c \in DOMAIN course :
             course[c].term # NULL => \E t \in terms : t.id = course[c].term)
    /\ [](pc = "raised" /\ stages[Len(stages)] = "course"
             => /\ Range(stages) = {"verify", "term", "course"}
                /\ <<"watermark", "course">> \notin Range(ops)
                /\ \A i \in 1..Len(ops) : ops[i][2] \in {"academic_terms", "course"}
                /\ exception_in_run = "false"
                /\ status[Len(status)].k # "end")
    /\ [][pc = "course"
            => /\ MissingTermCourses # {} <=> pc' = "raised"
               /\ pc' = "raised"
                     => /\ tables' = tables
                        /\ \A c \in DOMAIN course :
                              course'[c].data_last_updated = course[c].data_last_updated]_vars

C35_Witness ==
    /\ pc = "raised" /\ stages[Len(stages)] = "course" /\ runs = 1
    /\ "term" \in Range(stages)
    /\ terms # {}
    /\ \E c \in Range(locked) :
          /\ WarehouseCourse(c).enrollment_term_id = 2
          /\ course[c].term # 2
          /\ \A t \in terms : t.id # 2

\* C36: runs start at increasing times; no step moves the watermark of a Course
\* row to an earlier time or back to none; the commit of a run that caught no
\* exception leaves every locked course with the run's start time as watermark.
C36_WatermarkMonotone ==
    [][/\ runs' # runs => (run_start' > run_start /\ run_start' = now')
       /\ \A c \in DOMAIN course \cap DOMAIN course' :
             course[c].data_last_updated # NULL
                => /\ course'[c].data_last_updated # NULL
                   /\ course'[c].data_last_updated >= course[c].data_last_updated
       /\ (pc = "commit" /\ exception_in_run = "false")
             => \A c \in Range(locked) \cap DOMAIN course' :
                   course'[c].data_last_updated = run_start]_vars

C36_Witness ==
    /\ runs = 2 /\ RunCommitted /\ Len(locked) = 2
    /\ prev.synced /\ ~prev.tainted /\ prev.cutoff = NULL
    /\ \A c \in Range(locked) :
          /\ start.course[c].data_last_updated = run_start - 1
          /\ course[c].data_last_updated = run_start

\* C37: no row of resource_access carries the sentinel user id.
C37_NoSentinelAppended ==
    \A k \in 1..Len(resource_access) : resource_access[k].user_id # SENTINEL

\* --- the catalog: warehouse file records of course 1, one of them no longer
\* available, next to events of the resources 1 and 2.
FileRemoved == [id |-> 1, course_id |-> 1, available |-> FALSE, display_name |-> 4]

InitCatalog ==
    InitFrom({[c \in CourseIds |-> FreshCourse]}, {{}}, {WarehouseCourses(1)},
             {<<[id |-> 1, name |-> 1]>>}, {1},
             {<<>>, <<FileRenamed>>, <<FileRemoved>>},
             {<<Event(1, 1), EventLater, Event(2, 1)>>,
              <<Event(1, 1), EventShared>>},
             {[DefaultSettings EXCEPT !.cron_bq_in_limit = n] : n \in 1..2})

SpecCatalog == InitCatalog /\ [][Job]_vars

\* The resource ids of the Resource table.
ResourceIds(rows) == {r.resource_id : r \in rows}

====
